---- MODULE Spec2Model ----
(***************************************************************************)
(* State-machine model of the MIP branch-and-bound search driver           *)
(* (HighsSearch, src/src/mip/HighsSearch.cpp).                             *)
(*                                                                         *)
(* Numbers.  Bound values and branching points are kept in HALF UNITS: the *)
(* integer v is the number 2*v, the fractional point v + 0.5 is 2*v + 1.   *)
(* floor, ceil and the +-0.5 shifts of the source are computed on that     *)
(* representation.  Objective values are the integers 0..MaxObj, with      *)
(* -kHighsInf and +kHighsInf as NegInf and HighsInf.  Tree weight is kept  *)
(* in units of 2^-DepthCap, so that pow(0.5, d) is the integer             *)
(* 2^(DepthCap - d).                                                       *)
(*                                                                         *)
(* Steps.  A call of an operation is one action that carries the whole     *)
(* operation, the calls it makes included; the operations with loops are   *)
(* written as operators that return the set of states the loop can end in. *)
(* Only selectBranchingCandidate is walked trial by trial inside branch,   *)
(* with pc naming the position of the driver and loc holding the locals.   *)
(* The collaborators that are not part of the driver (propagation, the LP  *)
(* solver, pseudocosts, the symmetry detector, the owner of the search)    *)
(* answer nondeterministically.  hist records what the last step did and   *)
(* the values the search was entered with.                                 *)
(***************************************************************************)
EXTENDS Integers, Sequences, FiniteSets, TLC

\* ------------------------------------------------------------------ bounds
MaxVal == 2        \* width of the domain of the general integer column
MaxObj == 0        \* largest LP objective value
MaxRoots == 1      \* number of createNewNode calls explored
MaxQueue == 1      \* capacity of the node queue explored
MaxDrivers == 2    \* drivers that share the MIP-wide data
MaxCount == 2      \* units of work the drivers count in all
\* the largest budget solveDepthFirst is called with, and the number of calls
\* of solveDepthFirst on one search
MaxBacktracks == 2
MaxCalls == 1
MaxMinRel == 3     \* largest min-reliable parameter branch is entered with
MaxPasses == 2     \* passes of the loop of branch explored
MaxTrials == 2     \* trial LPs solved in one call of branch

NegInf == 0 - 2
HighsInf == MaxObj + 1
ObjValues == 0..MaxObj

Cols == {1, 2, 3}
kLower == "Lower"
kUpper == "Upper"
Null == [null |-> TRUE]

\* global domain (half units): column 1 is binary, column 2 is a general
\* integer in 1..1+MaxVal, column 3 is continuous in [0, 1]
GlobalLower(c) == IF c = 2 THEN 2 ELSE 0
GlobalUpper(c) == IF c = 2 THEN 2 + 2 * MaxVal ELSE 2

\* the deepest logical depth a node can have: a branching removes at least
\* one value of the branched column; a node installed from the queue may sit
\* deeper than its domain tells
MaxDepth == MaxVal
DepthCap == MaxDepth + 3

SetMax(S) == CHOOSE x \in S : \A y \in S : y <= x
SetMin(S) == CHOOSE x \in S : \A y \in S : x <= y
Max2(a, b) == IF a >= b THEN a ELSE b

\* std::floor / std::ceil on half units
Floor(x) == x - (x % 2)
Ceil(x) == x + (x % 2)

\* std::pow(0.5, e) in units of 2^-DepthCap
Pow05(e) == 2 ^ (DepthCap - e)
WeightUnit == 2 ^ DepthCap

VARIABLES
  nodestack,          \* std::vector<NodeData>
  domchgstack,        \* localdom: the domain-change stack
  infeasible_pos,     \* localdom: -1 when feasible, else the stack position of the infeasibility
  depthoffset,
  treeweight,
  pruned_treeweight,  \* mipdata_->pruned_treeweight
  upper_limit,        \* mipdata_->upper_limit
  lpstate,            \* what the driver reads from lp: scaledOptimal(getStatus()), getFractionalIntegers()
  nodequeue,          \* mipdata_->nodequeue, a sequence of open nodes
  symmetries,         \* mipdata_->symmetries and mipdata_->globalOrbits
  integral_cols,      \* mipdata_->integral_cols: the integer columns of the problem
  propagating,        \* whether the rows and cuts of the problem let propagation find anything
  caller,             \* the code that owns the search and the operations it calls
  pc,                 \* position of the driver inside the running operation
  loc,                \* locals of the running operation
  hist,               \* history: values on entry of the search and what the last step recorded
  stats,              \* the statistics counters of the drivers that share the MIP-wide data
  run                 \* position of the driver inside solveDepthFirst and dive

vars == <<nodestack, domchgstack, infeasible_pos, depthoffset, treeweight,
          pruned_treeweight, upper_limit, lpstate, nodequeue, symmetries,
          integral_cols, propagating, caller, pc, loc, hist, stats, run>>

\* the variables of one search
search == <<nodestack, domchgstack, infeasible_pos, depthoffset, treeweight,
            pruned_treeweight, upper_limit, lpstate, nodequeue, symmetries,
            integral_cols, propagating, caller, pc, loc, hist>>

\* ------------------------------------------------------------ local domain
DomainChange(col, bt, val) == [column |-> col, boundtype |-> bt, boundval |-> val]
StackEntry(chg, br) ==
  [column |-> chg.column, boundtype |-> chg.boundtype, boundval |-> chg.boundval,
   branching |-> br]
EntryChange(e) == DomainChange(e.column, e.boundtype, e.boundval)

ColLower(stk, c) ==
  SetMax({GlobalLower(c)} \cup
         {stk[i].boundval : i \in {j \in DOMAIN stk :
                                    stk[j].column = c /\ stk[j].boundtype = kLower}})
ColUpper(stk, c) ==
  SetMin({GlobalUpper(c)} \cup
         {stk[i].boundval : i \in {j \in DOMAIN stk :
                                    stk[j].column = c /\ stk[j].boundtype = kUpper}})

Crossed(stk) == \E c \in Cols : ColLower(stk, c) > ColUpper(stk, c)

\* isBinary(col) on the global domain: an integer column with bounds 0 and 1
IsGlobalBinary(c) == c \in integral_cols /\ GlobalLower(c) = 0 /\ GlobalUpper(c) = 2

\* localdom.changeBound(chg, reason): pushes the change; a crossing marks the
\* domain infeasible at the position of the change
DomChangeBound(dom, chg, br) ==
  LET stk == Append(dom.stack, StackEntry(chg, br))
  IN [stack |-> stk,
      infpos |-> IF dom.infpos = -1 /\ Crossed(stk) THEN Len(dom.stack) ELSE dom.infpos]

BranchPositions(stk) == {i \in DOMAIN stk : stk[i].branching}

\* localdom.backtrack(): pops down to and including the last branching change
DomBacktrack(dom) ==
  LET bp == BranchPositions(dom.stack)
      k == IF bp = {} THEN 0 ELSE SetMax(bp) - 1
  IN [stack |-> SubSeq(dom.stack, 1, k),
      infpos |-> IF dom.infpos >= k THEN -1 ELSE dom.infpos]

\* localdom.backtrackToGlobal()
DomBacktrackToGlobal(dom) == [stack |-> <<>>, infpos |-> -1]

DomInfeasible(dom) == dom.infpos # -1

\* bound tightenings that propagation, orbital fixing or reduced-cost fixing
\* may derive: an unfixed column is fixed at its lower bound
Tightenings(stk) ==
  {DomainChange(c, kUpper, ColLower(stk, c)) :
      c \in {d \in integral_cols : ColLower(stk, d) < ColUpper(stk, d)}}

NoChange == [kind |-> "none"]

\* outcomes of one call of propagate / orbitalFixing / propagateRedCost:
\* nothing, infeasibility, or one tightening
PropOutcomes(dom) ==
  IF DomInfeasible(dom) \/ ~propagating THEN {NoChange}
  ELSE {NoChange, [kind |-> "infeasible"]}
       \cup {[kind |-> "tighten", chg |-> t] : t \in Tightenings(dom.stack)}

DomApply(dom, o) ==
  IF DomInfeasible(dom) \/ o.kind = "none" THEN dom
  ELSE IF o.kind = "infeasible" THEN [dom EXCEPT !.infpos = Len(dom.stack)]
  ELSE DomChangeBound(dom, o.chg, FALSE)

\* localdom.getReducedDomainChangeStack(branchPositions): only the tightest
\* change of each column and bound type is kept
Superseded(stk, i) ==
  \E j \in DOMAIN stk : j > i /\ stk[j].column = stk[i].column
                        /\ stk[j].boundtype = stk[i].boundtype
RECURSIVE ReducedFrom(_, _)
ReducedFrom(stk, i) ==
  IF i > Len(stk) THEN <<>>
  ELSE IF Superseded(stk, i) THEN ReducedFrom(stk, i + 1)
  ELSE <<stk[i]>> \o ReducedFrom(stk, i + 1)
ReducedStack(stk) == ReducedFrom(stk, 1)
GetReducedDomainChangeStack(stk) ==
  LET r == ReducedStack(stk)
  IN [domchgstack |-> [i \in DOMAIN r |-> EntryChange(r[i])],
      branchings |-> {i - 1 : i \in BranchPositions(r)}]

\* localdom.setDomainChangeStack(stack, branchings): replays the changes
SetDomainChangeStack(chgs, branchings) ==
  [stack |-> [i \in DOMAIN chgs |-> StackEntry(chgs[i], (i - 1) \in branchings)],
   infpos |-> -1]

LocalDom == [stack |-> domchgstack, infpos |-> infeasible_pos]

\* ------------------------------------------------------------ symmetries
\* a StabilizerOrbits object: the columns in non-trivial orbits and the
\* stabilized columns
Orbits(oc, sc) == [orbitCols |-> oc, stabilizedCols |-> sc]
IsStabilized(orbits, col) == col \in orbits.stabilizedCols

\* symmetries.computeStabilizerOrbits(localdom): a stabilizer of the tracked
\* columns that stabilizes the columns branched on; its orbits may be trivial
BranchedCols(stk) == {stk[i].column : i \in {j \in DOMAIN stk : stk[j].branching}}
OrbitChoices(stk) ==
  LET sc == symmetries.tracked \cap BranchedCols(stk)
  IN {Orbits({}, sc), Orbits(symmetries.tracked \ sc, sc)}

\* stabilizerOrbits->orbitalFixing(localdom): fixes binary orbit columns
FixOutcomes(dom, orbits) ==
  {o \in PropOutcomes(dom) :
     o.kind = "tighten" => (o.chg.column \in orbits.orbitCols /\ IsGlobalBinary(o.chg.column))}

\* propagate followed by orbital fixing with the stabilizer stab (Null: none)
PropagateAndFix(dom, stab, onlyIfChanged) ==
  UNION {LET d1 == DomApply(dom, o1)
         IN IF /\ stab # Null
               /\ ~DomInfeasible(d1)
               /\ (onlyIfChanged => Len(d1.stack) # Len(dom.stack))
            THEN {DomApply(d1, o2) : o2 \in FixOutcomes(d1, stab)}
            ELSE {d1} : o1 \in PropOutcomes(dom)}

\* the problems explored: one integer column, binary or general, without
\* symmetries or with the symmetries tracking it, the continuous column or both
NoSymmetries == [tracked |-> {}, globalOrbits |-> Null]
Problems ==
  {[integral_cols |-> {c}, symmetries |-> NoSymmetries, propagating |-> TRUE] :
     c \in {1, 2}}
SymmetricProblems ==
  {[integral_cols |-> {c}, propagating |-> TRUE,
    symmetries |-> [tracked |-> {c, 3}, globalOrbits |-> Orbits({c, 3}, {})]] : c \in {1, 2}}
  \cup {[integral_cols |-> {1}, propagating |-> TRUE,
         symmetries |-> [tracked |-> {1, 3}, globalOrbits |-> Null]]}
  \cup {[integral_cols |-> {1}, propagating |-> TRUE,
         symmetries |-> [tracked |-> {3}, globalOrbits |-> Orbits({3}, {})]]}

\* ------------------------------------------------------------ node stack
NoDecision == DomainChange(0 - 1, kLower, 0)

\* NodeData(parentlb, parentestimate, parentBasis, stabilizerOrbits); the
\* fields first and flipped are history: the decision the frame was
\* branched with and whether it has been flipped to its sibling
NodeData(lb, est, stab) ==
  [lower_bound |-> lb, estimate |-> est, lp_objective |-> NegInf,
   stabilizerOrbits |-> stab, branchingdecision |-> NoDecision,
   branching_point |-> 0, domgchgStackPos |-> 0 - 1, skipDepthCount |-> 0,
   opensubtrees |-> 2, first |-> NoDecision, flipped |-> FALSE]

Top == nodestack[Len(nodestack)]
HasParent == Len(nodestack) > 1
Parent == nodestack[Len(nodestack) - 1]
TopOf(stk) == stk[Len(stk)]
SetTop(stk, f) == [stk EXCEPT ![Len(stk)] = f]
Pop(stk) == SubSeq(stk, 1, Len(stk) - 1)

\* getCurrentDepth()
GetCurrentDepth(stk, off) == Len(stk) + off

\* getCutoffBound(): the search's own upper_limit stays kHighsInf
CutoffBound(limit) == IF limit < HighsInf THEN limit ELSE HighsInf
GetCutoffBound == CutoffBound(upper_limit)

\* a faulty orbitsValidInChildNode: the rule for down branches on binary
\* columns is missing
OrbitsValidIfStabilized(currNode, branchChg) ==
  \/ currNode.stabilizerOrbits = Null
  \/ currNode.stabilizerOrbits.orbitCols = {}
  \/ IsStabilized(currNode.stabilizerOrbits, branchChg.column)

\* orbitsValidInChildNode(branchChg), for the current node currNode
OrbitsValidInChildNode(currNode, branchChg) ==
  IF \/ currNode.stabilizerOrbits = Null
     \/ currNode.stabilizerOrbits.orbitCols = {}
     \/ IsStabilized(currNode.stabilizerOrbits, branchChg.column)
  THEN TRUE
  ELSE IF branchChg.boundtype = kUpper /\ IsGlobalBinary(branchChg.column)
  THEN TRUE
  ELSE FALSE

\* a faulty emplace_back: the stabilizer is passed whatever pass says
ChildNodeInheriting(currnode, pass, pos) ==
  [NodeData(currnode.lower_bound, currnode.estimate, currnode.stabilizerOrbits)
   EXCEPT !.domgchgStackPos = pos]

\* nodestack.emplace_back(lower_bound, estimate, nodeBasis, pass ? orbits : nullptr)
\* followed by nodestack.back().domgchgStackPos = domchgPos
ChildNode(currnode, pass, pos) ==
  [NodeData(currnode.lower_bound, currnode.estimate,
            IF pass THEN currnode.stabilizerOrbits ELSE Null)
   EXCEPT !.domgchgStackPos = pos]

\* lines 1299-1313 and 152-159: the decision of the top frame is applied and
\* the child pushed, on the state st = [stack, dom]
BranchPush(st) ==
  LET currnode == TopOf(st.stack)
      domchgPos == Len(st.dom.stack)
      pass == OrbitsValidInChildNode(currnode, currnode.branchingdecision)
      cur == [currnode EXCEPT !.opensubtrees = 1, !.first = currnode.branchingdecision]
  IN [stack |-> Append(SetTop(st.stack, cur), ChildNode(cur, pass, domchgPos)),
      dom |-> DomChangeBound(st.dom, currnode.branchingdecision, TRUE)]

\* branchDownwards(col, newub, branchpoint) / branchUpwards(col, newlb, branchpoint)
BranchDownwardsOp(st, col, newub, branchpoint) ==
  BranchPush([stack |-> SetTop(st.stack,
                 [TopOf(st.stack) EXCEPT !.branching_point = branchpoint,
                     !.branchingdecision = DomainChange(col, kUpper, newub)]),
              dom |-> st.dom])
BranchUpwardsOp(st, col, newlb, branchpoint) ==
  BranchPush([stack |-> SetTop(st.stack,
                 [TopOf(st.stack) EXCEPT !.branching_point = branchpoint,
                     !.branchingdecision = DomainChange(col, kLower, newlb)]),
              dom |-> st.dom])

\* a faulty flip: the bound value is kept, the siblings overlap
FlippedValueKept(dec) == dec.boundval

\* lines 1363-1381: the frame is flipped to its sibling
FlippedValue(dec) ==
  IF dec.boundtype = kLower THEN Floor(dec.boundval - 1) ELSE Ceil(dec.boundval + 1)
FlipDecision(dec) ==
  DomainChange(dec.column, IF dec.boundtype = kLower THEN kUpper ELSE kLower,
               FlippedValue(dec))
\* a faulty flip: the branching point of a fallback branch stays behind
FlippedPointKept(currnode, dec) == currnode.branching_point

\* lines 1367-1368 and 1380-1381: the branching point of a fallback branch
\* follows the bound value
FlippedPoint(currnode, dec) ==
  LET fallbackbranch == currnode.branchingdecision.boundval = currnode.branching_point
  IN IF fallbackbranch THEN dec.boundval ELSE currnode.branching_point

\* a faulty flip: the frame still counts an open subtree
FlipFrameLeftOpen(currnode) ==
  [currnode EXCEPT !.branchingdecision = FlipDecision(@), !.flipped = TRUE]

FlipFrame(currnode) ==
  LET dec == FlipDecision(currnode.branchingdecision)
  IN [currnode EXCEPT !.opensubtrees = 0, !.branchingdecision = dec,
                      !.branching_point = FlippedPoint(currnode, dec),
                      !.flipped = TRUE]

\* ------------------------------------------------------------ history
NoSb == [uprel |-> {}, downrel |-> {}, entry |-> [null |-> TRUE], lps |-> 0]
\* object is the LP relaxation the handle lp of the driver points to: "lp",
\* the relaxation of the MIP data, or "lpCopy", the local of branch
NoLp == [optimal |-> FALSE, fracints |-> {}, object |-> "lp"]
NoLoc == [op |-> "none", result |-> "kOpen", sb |-> NoSb]
Ret(op, val) == [op |-> op, val |-> val]
NoTrial == [status |-> "none"]

\* what a step leaves in the history: the values on entry of the search stay,
\* the record of the previous step is dropped; target is the argument of
\* backtrackUntilDepth, lpsol that of setRENSNeighbourhood
Step ==
  [rootoffset |-> hist.rootoffset, startweight |-> hist.startweight,
   pure |-> hist.pure, nroots |-> hist.nroots,
   ret |-> Ret("none", "void"), cutoffobs |-> <<>>, sbexit |-> "none",
   installed |-> Null, queued |-> <<>>, pushed |-> 0, reeval |-> FALSE,
   ladder |-> <<>>, flips |-> <<>>, infobs |-> <<>>, costobs |-> <<>>,
   trial |-> NoTrial, target |-> 0, lpsol |-> <<>>]

NoHistory ==
  [rootoffset |-> 0, startweight |-> 0, pure |-> FALSE, nroots |-> 0,
   ret |-> Ret("none", "void"), cutoffobs |-> <<>>, sbexit |-> "none",
   installed |-> Null, queued |-> <<>>, pushed |-> 0, reeval |-> FALSE,
   ladder |-> <<>>, flips |-> <<>>, infobs |-> <<>>, costobs |-> <<>>,
   trial |-> NoTrial, target |-> 0, lpsol |-> <<>>]

\* The owners of a search.  "depthfirst" creates a root and runs
\* solveDepthFirst on it (lines 1657-1668); "mainloop" is the solver's main
\* loop, which takes nodes from the queue, plunges and hands nodes back;
\* "heuristic" is a primal heuristic, which steers the dive with the public
\* branching calls and returns to a depth of its choice; "diver" creates a
\* root and calls solveDepthFirst, which makes the calls itself.
Operations(c) ==
  CASE c = "depthfirst" ->
         {"createNewNode", "branch", "backtrack", "flushStatistics"}
    [] c = "mainloop" ->
         {"installNode", "branch", "backtrackPlunge", "currentNodeToQueue",
          "openNodesToQueue"}
    [] c = "heuristic" ->
         {"createNewNode", "branchDownwards", "branchUpwards", "backtrack",
          "backtrackUntilDepth", "setRENSNeighbourhood"}
    [] c = "diver" -> {"createNewNode", "solveDepthFirst"}

\* ------------------------------------------------- solveDepthFirst and dive
\* run.pos is the call that solveDepthFirst or dive makes next, "none" when
\* solveDepthFirst is not running; maxbacktracks is the local of
\* solveDepthFirst and nnodes the counter of the search.  The other fields
\* are history of the last call of solveDepthFirst: its argument, the number
\* of dives, the number of evaluateNode calls made by dive, the result of
\* the last of them, what checkLimits said after it, how the last dive
\* returned and why solveDepthFirst returned.
NoDive == [result |-> "none", by |-> "none"]
NoRun ==
  [pos |-> "none", maxbacktracks |-> 0, nnodes |-> 0, budget |-> 0, dives |-> 0,
   evals |-> 0, last |-> "none", limit |-> FALSE, dived |-> NoDive, exit |-> "none",
   calls |-> 0]

\* lines 1658-1659 and 1642-1645: the head of the loop of solveDepthFirst;
\* with budget left dive starts and counts the node it evaluates
SolveLoopHead(r) ==
  IF r.maxbacktracks = 0 THEN [r EXCEPT !.pos = "none", !.exit = "budget"]
  ELSE [r EXCEPT !.pos = "evaluateNode"]

\* a faulty dive: the node is counted twice
DiveCountTwice(r) == [r EXCEPT !.nnodes = @ + 2]
\* line 1645
DiveCount(r) == [r EXCEPT !.nnodes = @ + 1]

\* a faulty loop: the budget is not charged
DiveReturnedFree(r, result, by) ==
  LET d == [r EXCEPT !.dives = @ + 1, !.dived = [result |-> result, by |-> by]]
  IN IF result = "kOpen" THEN [d EXCEPT !.pos = "none", !.exit = "open"]
     ELSE [d EXCEPT !.pos = "backtrack"]
\* lines 1648, 1650, 1653 and 1661-1667: dive returns result to
\* solveDepthFirst, which leaves on kOpen and else charges the budget and
\* calls backtrack
DiveReturned(r, result, by) ==
  LET d == [r EXCEPT !.dives = @ + 1, !.dived = [result |-> result, by |-> by]]
  IN IF result = "kOpen" THEN [d EXCEPT !.pos = "none", !.exit = "open"]
     ELSE [d EXCEPT !.maxbacktracks = @ - 1, !.pos = "backtrack"]

\* the call that returned with val moves solveDepthFirst and dive on
Resume(op, val) ==
  IF run.pos = "none" THEN run
  ELSE CASE op = "evaluateNode" ->
              [DiveCount(run) EXCEPT !.pos = "checkLimits", !.evals = @ + 1, !.last = val]
         [] op = "branch" ->
              IF val = "kBranched" THEN [run EXCEPT !.pos = "evaluateNode"]
              ELSE DiveReturned(run, val, "branch")
         [] op = "backtrack" ->
              IF val = "true" THEN SolveLoopHead(run)
              ELSE [run EXCEPT !.pos = "none", !.exit = "empty"]
         [] OTHER -> run

\* an owner calls its operations; solveDepthFirst makes its own calls
Scheduled(op) == run.pos \in {"none", op}
Calls(op) == IF run.pos = "none" THEN op \in Operations(caller) ELSE run.pos = op

\* the MIP-wide upper limit is either not known yet or was found before the
\* search was constructed
Users ==
  {[caller |-> c, upper_limit |-> u] :
     c \in {"depthfirst", "mainloop", "heuristic"}, u \in {HighsInf, MaxObj}}

\* return of an operation to its caller
Return(op, val, h) ==
  /\ pc' = "idle"
  /\ loc' = NoLoc
  /\ hist' = [h EXCEPT !.ret = Ret(op, val)]
  /\ run' = Resume(op, val)

\* ------------------------------------------------- createNewNode, installNode
\* lines 128-131
CreateNewNode ==
  /\ pc = "idle"
  /\ Calls("createNewNode")
  /\ nodestack = <<>>
  /\ hist.nroots < MaxRoots
  /\ nodestack' = <<[NodeData(NegInf, NegInf, Null)
                     EXCEPT !.domgchgStackPos = Len(domchgstack)]>>
  /\ Return("createNewNode", "void",
            [Step EXCEPT !.rootoffset = depthoffset,
                         !.startweight = treeweight + pruned_treeweight,
                         !.pure = TRUE, !.nroots = @ + 1, !.pushed = 1])
  /\ UNCHANGED <<domchgstack, infeasible_pos, depthoffset, treeweight,
                 pruned_treeweight, upper_limit, lpstate, nodequeue, symmetries,
                 integral_cols, caller, propagating, stats>>

\* a faulty validity check: the branchings of the node are not looked at
GlobalSymmetriesKept(node) == TRUE

\* lines 814-831
GlobalSymmetriesValid(node) ==
  \/ symmetries.globalOrbits = Null
  \/ \A i \in node.branchings :
       LET chg == node.domchgstack[i + 1]
       IN \/ chg.column \notin symmetries.tracked
          \/ ~(\/ ~IsGlobalBinary(chg.column)
               \/ (chg.boundtype = kLower /\ chg.boundval = 2))

\* lines 832-834
InstallFrame(node) ==
  NodeData(node.lower_bound, node.estimate,
           IF GlobalSymmetriesValid(node) THEN symmetries.globalOrbits ELSE Null)

\* a faulty offset: the depth of the node itself
InstallDepthOffsetOfDepth(node) == node.depth

\* line 836
InstallDepthOffset(node) == node.depth - 1

\* installNode(node) on an empty stack, lines 812-837
InstallNode ==
  /\ pc = "idle"
  /\ Calls("installNode")
  /\ nodestack = <<>>
  /\ \E k \in DOMAIN nodequeue :
       LET node == nodequeue[k]
           dom == SetDomainChangeStack(node.domchgstack, node.branchings)
       IN /\ domchgstack' = dom.stack
          /\ infeasible_pos' = dom.infpos
          /\ nodestack' = <<InstallFrame(node)>>
          /\ depthoffset' = InstallDepthOffset(node)
          /\ nodequeue' = [i \in 1..(Len(nodequeue) - 1) |->
                             IF i < k THEN nodequeue[i] ELSE nodequeue[i + 1]]
          /\ Return("installNode", "void",
                    [Step EXCEPT !.rootoffset = InstallDepthOffset(node),
                                 !.pure = FALSE, !.installed = node, !.pushed = 1])
  /\ UNCHANGED <<treeweight, pruned_treeweight, upper_limit, lpstate, symmetries,
                 integral_cols, caller, propagating, stats>>

\* ------------------------------------------------------------ evaluateNode
\* fractional integers the LP may report: at most one point per column,
\* strictly inside the local bounds
FracPoints == {2 * n + 1 : n \in 0..MaxVal}
FracChoices(stk) ==
  {F \in SUBSET {<<c, v>> : c \in integral_cols, v \in FracPoints} :
     /\ \A e \in F : ColLower(stk, e[1]) < e[2] /\ e[2] < ColUpper(stk, e[1])
     /\ \A e1 \in F, e2 \in F : e1[1] = e2[1] => e1 = e2}

\* outcomes of lp->resolveLp(&localdom) as evaluateNode classifies them
LpOutcomes(stk, limit) ==
  {[status |-> "DomainInfeasible"], [status |-> "Error"]}
  \cup {[status |-> "Infeasible", objbound |-> b] : b \in BOOLEAN}
  \cup {lp \in {[status |-> "Optimal", fracints |-> F, obj |-> obj, primal |-> p, dual |-> d] :
                   F \in FracChoices(stk), obj \in ObjValues, p \in BOOLEAN, d \in BOOLEAN} :
          lp.dual \/ lp.obj > CutoffBound(limit)}

\* a faulty test: a fallback branch teaches as well
ParentTeachesFallback(stk) ==
  /\ Len(stk) > 1
  /\ stk[Len(stk) - 1].lp_objective # NegInf

\* lines 872-873: the parent's branching teaches a cost or a cutoff
ParentTeaches(stk) ==
  /\ Len(stk) > 1
  /\ stk[Len(stk) - 1].lp_objective # NegInf
  /\ stk[Len(stk) - 1].branching_point # stk[Len(stk) - 1].branchingdecision.boundval

\* a faulty observation: the cutoff is recorded for every parent
ParentCutoffObservationAlways(stk) ==
  IF Len(stk) > 1
  THEN <<<<stk[Len(stk) - 1].branchingdecision.column,
           stk[Len(stk) - 1].branchingdecision.boundtype = kLower>>>>
  ELSE <<>>

\* pseudocost.addCutoffObservation(col, upbranch) for the parent's branching
ParentCutoffObservation(stk) ==
  IF ParentTeaches(stk)
  THEN <<<<stk[Len(stk) - 1].branchingdecision.column,
           stk[Len(stk) - 1].branchingdecision.boundtype = kLower>>>>
  ELSE <<>>

\* lines 860-865: pseudocost.addInferenceObservation(col, inferences, upbranch)
\* for the parent's branching, whatever the state of the domain
ParentInferenceObservation(stk, dom) ==
  IF Len(stk) > 1
  THEN <<<<stk[Len(stk) - 1].branchingdecision.column,
           stk[Len(stk) - 1].branchingdecision.boundtype = kLower,
           Len(dom.stack) - (TopOf(stk).domgchgStackPos + 1)>>>>
  ELSE <<>>

\* lines 917-926: pseudocost.addObservation(col, delta, objdelta) for the
\* parent's branching; the sign of delta is the direction
ParentObservation(stk) ==
  IF ParentTeaches(stk)
  THEN <<<<stk[Len(stk) - 1].branchingdecision.column,
           stk[Len(stk) - 1].branchingdecision.boundval
             > stk[Len(stk) - 1].branching_point>>>>
  ELSE <<>>

\* a faulty weight: that of the node above the current one
PrunedWeightOfParent(stk, off) == Pow05(GetCurrentDepth(stk, off) - 2)
\* line 992: the weight evaluateNode adds when it closes the current frame
PrunedWeight(stk, off) == Pow05(GetCurrentDepth(stk, off) - 1)

\* mipdata_->addIncumbent(sol, obj, source): the upper limit falls below the
\* objective of the incumbent
AddIncumbent(limit, obj) == IF obj - 1 < limit THEN obj - 1 ELSE limit

\* lines 990-996: a result other than kOpen closes the frame and adds its weight
CloseEvaluated(result, stk) ==
  IF result # "kOpen" THEN SetTop(stk, [TopOf(stk) EXCEPT !.opensubtrees = 0]) ELSE stk
\* a faulty close: the weight is added whatever the result
EvaluatedWeightAlways(result, stk, off, w) == w + PrunedWeight(stk, off)

EvaluatedWeight(result, stk, off, w) ==
  IF result # "kOpen" THEN w + PrunedWeight(stk, off) ELSE w

\* what evaluateNode and branch work on: the node stack, the local domain,
\* the depth offset, the tree weight, the upper limit and the LP; result is
\* the NodeResult so far, obs the cutoff observations made, infobs the
\* inference observations and costobs the objective observations; reeval and
\* ladder are history: whether evaluateNode called itself again, and the
\* results of the evaluations on the fresh LP of the fallback ladder
Work ==
  [stack |-> nodestack, dom |-> LocalDom, off |-> depthoffset, tw |-> treeweight,
   limit |-> upper_limit, lp |-> lpstate, result |-> "kOpen", obs |-> <<>>,
   reeval |-> FALSE, ladder |-> <<>>, infobs |-> <<>>, costobs |-> <<>>]

\* the return of evaluateNode (lines 990-996)
EvalReturn(result, w, stk, dom, lp, obs) ==
  [w EXCEPT !.stack = CloseEvaluated(result, stk), !.dom = dom,
            !.lp = [lp EXCEPT !.object = w.lp.object],
            !.tw = EvaluatedWeight(result, stk, w.off, w.tw),
            !.result = result, !.obs = w.obs \o obs]

RECURSIVE EvaluateNodeOp(_)

\* lines 909-972: the LP is scaled optimal
EvalLpOptimal(lp, v, stk, dom) ==
  LET w == [v EXCEPT !.costobs = @ \o ParentObservation(stk)]
      cur == [TopOf(stk) EXCEPT !.lp_objective = lp.obj, !.estimate = lp.obj]
      integerfeasible == lp.primal /\ lp.fracints = {}
      lb == Max2(lp.obj, cur.lower_bound)
      curlb == [cur EXCEPT !.lower_bound = lb]
      sol == [optimal |-> TRUE, fracints |-> lp.fracints, object |-> v.lp.object]
  IN IF integerfeasible
     THEN {[EvalReturn("kBoundExceeding", w, SetTop(stk, cur), dom, sol, <<>>)
              EXCEPT !.limit = AddIncumbent(w.limit, lp.obj)]}
     ELSE IF lp.dual
     THEN IF lb > CutoffBound(w.limit)
          THEN {EvalReturn("kBoundExceeding", w, SetTop(stk, curlb), dom, sol, <<>>)}
          ELSE IF w.limit # HighsInf
          THEN UNION {LET d == DomApply(dom, o)
                      IN IF DomInfeasible(d)
                         THEN {EvalReturn("kBoundExceeding", w, SetTop(stk, curlb), d,
                                          sol, <<>>)}
                         ELSE IF o.kind = "tighten"
                         THEN EvaluateNodeOp([w EXCEPT !.stack = SetTop(stk, curlb),
                                                       !.dom = d, !.lp = sol,
                                                       !.reeval = TRUE])
                         ELSE {EvalReturn("kOpen", w, SetTop(stk, curlb), d, sol, <<>>)} :
                      o \in PropOutcomes(dom)}
          ELSE {EvalReturn("kOpen", w, SetTop(stk, curlb), dom, sol, <<>>)}
     ELSE IF lp.obj > CutoffBound(w.limit)
     THEN {LET d == DomApply(dom, o)
           IN EvalReturn(IF DomInfeasible(d) THEN "kBoundExceeding" ELSE "kOpen",
                         w, SetTop(stk, cur), d, sol, <<>>) : o \in PropOutcomes(dom)}
     ELSE {EvalReturn("kOpen", w, SetTop(stk, cur), dom, sol, <<>>)}

\* lines 882-988: the LP is solved and its status classified
EvalLp(lp, w, stk, dom) ==
  IF lp.status = "Optimal"
  THEN EvalLpOptimal(lp, w, stk, dom)
  ELSE IF lp.status = "DomainInfeasible"
  THEN {EvalReturn("kDomainInfeasible", w, stk, [dom EXCEPT !.infpos = Len(dom.stack)],
                   NoLp, ParentCutoffObservation(stk))}
  ELSE IF lp.status = "Infeasible"
  THEN {EvalReturn(IF lp.objbound THEN "kBoundExceeding" ELSE "kLpInfeasible",
                   w, stk, dom, NoLp, ParentCutoffObservation(stk))}
  ELSE {EvalReturn("kOpen", w, stk, dom, NoLp, <<>>)}

\* line 849-852: a stabilizer is computed for the current node
ComputesStabilizer(stk) ==
  /\ symmetries.tracked # {}
  /\ TopOf(stk).stabilizerOrbits = Null
  /\ (\/ Len(stk) = 1
      \/ stk[Len(stk) - 1].stabilizerOrbits = Null
      \/ stk[Len(stk) - 1].stabilizerOrbits.orbitCols # {})

\* lines 846-858: propagation, then the stabilizer and its orbital fixing
EvalPropagated(w) ==
  UNION {LET d1 == DomApply(w.dom, o1)
         IN UNION {{[stack |-> SetTop(w.stack, [TopOf(w.stack) EXCEPT
                                                  !.stabilizerOrbits = stab]),
                     dom |-> DomApply(d1, o2)] :
                      o2 \in (IF ~DomInfeasible(d1) /\ stab # Null
                              THEN FixOutcomes(d1, stab) ELSE {NoChange})} :
                   stab \in (IF ~DomInfeasible(d1) /\ ComputesStabilizer(w.stack)
                             THEN OrbitChoices(d1.stack)
                             ELSE {TopOf(w.stack).stabilizerOrbits})} :
         o1 \in PropOutcomes(w.dom)}

\* evaluateNode(), lines 839-997, as the set of states it can return in
EvaluateNodeOp(v) ==
  UNION {LET w == [v EXCEPT !.infobs = @ \o ParentInferenceObservation(p.stack, p.dom)]
         IN IF DomInfeasible(p.dom)
            THEN {EvalReturn("kDomainInfeasible", w, p.stack, p.dom, w.lp,
                             ParentCutoffObservation(p.stack))}
            ELSE UNION {EvalLp(lp, w, p.stack, p.dom) :
                        lp \in LpOutcomes(p.dom.stack, w.limit)} :
         p \in EvalPropagated(v)}

\* the state an operation on w leaves
Assign(w) ==
  /\ nodestack' = w.stack
  /\ domchgstack' = w.dom.stack
  /\ infeasible_pos' = w.dom.infpos
  /\ depthoffset' = w.off
  /\ treeweight' = w.tw
  /\ upper_limit' = w.limit
  /\ lpstate' = w.lp

\* a call of evaluateNode on the open current node
EvaluateNode ==
  /\ pc = "idle"
  /\ Scheduled("evaluateNode")
  /\ nodestack # <<>>
  /\ Top.opensubtrees = 2
  /\ hist.ret.op # "evaluateNode"
  /\ \E w \in EvaluateNodeOp(Work) :
       /\ Assign(w)
       /\ Return("evaluateNode", w.result,
                 [Step EXCEPT !.cutoffobs = w.obs, !.reeval = w.reeval,
                              !.infobs = w.infobs, !.costobs = w.costobs])
  /\ UNCHANGED <<pruned_treeweight, nodequeue, symmetries, integral_cols, caller, propagating, stats>>

\* ------------------------------------------------------------ branch
\* lines 395-398: the opposite branch is committed after one side failed
SkipDepthOfCommit == 1
\* a faulty commit: the depth offset is kept
CommitDepthOffsetKept(off) == off
CommitDepthOffset(off) == off - 1
CloseCommittedParent(stk) ==
  [stk EXCEPT ![Len(stk) - 1].opensubtrees = 0,
              ![Len(stk) - 1].skipDepthCount = SkipDepthOfCommit]

\* the cost sign of a column decides the direction of a fallback branch
ColCostNonNegative(c) == c = 1

\* lines 1210-1245: any integer column with a non-empty domain, branched at
\* its lower bound + 0.5
FallbackColumns(stk) ==
  {c \in integral_cols : ColUpper(stk, c) - ColLower(stk, c) >= 1}
FallbackDecision(stk, c) ==
  LET fracval == ColLower(stk, c) + 1
  IN IF ColCostNonNegative(c)
     THEN [point |-> Ceil(fracval), dec |-> DomainChange(c, kLower, Ceil(fracval))]
     ELSE [point |-> Floor(fracval), dec |-> DomainChange(c, kUpper, Floor(fracval))]

\* lines 1206-1245 and 1298-1313: the fallback decision is taken and the
\* child pushed
FallbackBranch(w, c) ==
  LET fb == FallbackDecision(w.dom.stack, c)
      cur == [TopOf(w.stack) EXCEPT !.branching_point = fb.point,
                                    !.branchingdecision = fb.dec]
      b == BranchPush([stack |-> SetTop(w.stack, cur), dom |-> w.dom])
  IN [w EXCEPT !.stack = b.stack, !.dom = b.dom, !.result = "kBranched"]

\* a faulty give-up: the frame stays open
LadderGiveUpLeftOpen(w) == [w EXCEPT !.result = "kLpInfeasible"]

\* lines 1287-1288: the ladder gives up
LadderGiveUp(w) ==
  [w EXCEPT !.stack = SetTop(w.stack, [TopOf(w.stack) EXCEPT !.opensubtrees = 0]),
            !.result = "kLpInfeasible"]

\* lines 1263-1291: the fallback ladder on the fresh LP: presolve, primal
\* simplex, IPM; a result other than kOpen ends it, kOpen moves to the next
\* stage and kOpen at the last stage gives up
LadderStages == 3
LadderSolver(stage) == <<"presolve", "primal simplex", "ipm">>[stage]
LadderStage(w, e, stage) ==
  [e EXCEPT !.ladder = Append(w.ladder, [solver |-> LadderSolver(stage),
                                         result |-> e.result,
                                         object |-> e.lp.object])]
RECURSIVE Ladder(_, _)
Ladder(w, stage) ==
  UNION {IF e.result # "kOpen" THEN {LadderStage(w, e, stage)}
         ELSE IF stage < LadderStages THEN Ladder(LadderStage(w, e, stage), stage + 1)
         ELSE {LadderGiveUp(LadderStage(w, e, stage))} :
         e \in EvaluateNodeOp([w EXCEPT !.lp = [@ EXCEPT !.optimal = FALSE,
                                                         !.fracints = {}]])}

\* lines 1254-1261: the fresh LP with the model rows and the local bounds,
\* and the swap that makes lp point to it
LpCopy == [optimal |-> FALSE, fracints |-> {}, object |-> "lpCopy"]
SwapIn(w) == [w EXCEPT !.lp = LpCopy]
\* a faulty exit: the swap back is left out when the ladder gives up
SwapBackUnlessGivenUp(w, e) ==
  IF Len(e.ladder) = LadderStages /\ e.ladder[LadderStages].result = "kOpen"
  THEN e ELSE [e EXCEPT !.lp = w.lp]
\* line 1294: the swap back; lp points to the relaxation it pointed to
\* before, which the ladder did not touch
SwapBack(w, e) == [e EXCEPT !.lp = w.lp]

\* lines 1248-1296: the fresh LP is swapped in for the ladder and the old
\* one swapped back
FallbackLadder(w) == {SwapBack(w, e) : e \in Ladder(SwapIn(w), 1)}

\* line 1009-1011
BranchLoopCondition(w) ==
  /\ TopOf(w.stack).opensubtrees = 2
  /\ w.lp.optimal
  /\ w.lp.fracints # {}

\* a faulty exit: the result of the loop is returned, no fallback is tried
BranchExitAtOnce(w) == {w}

\* lines 1195-1313: after the loop
BranchExit(w) ==
  IF TopOf(w.stack).opensubtrees # 2 THEN {w}
  ELSE IF FallbackColumns(w.dom.stack) # {}
  THEN {FallbackBranch(w, c) : c \in FallbackColumns(w.dom.stack)}
  ELSE FallbackLadder(w)

\* the node stack, the depth offset and the domain changes that
\* selectBranchingCandidate is entered with
SbEntry(w) == [stack |-> w.stack, off |-> w.off, dom |-> w.dom.stack]

\* lines 1012-1033: a pass of the loop starts selectBranchingCandidate;
\* columns with a reliable pseudocost start with both sides reliable
BranchSelect(w) ==
  /\ \E R \in SUBSET w.lp.fracints :
       loc' = [op |-> "branch", result |-> w.result,
               sb |-> [uprel |-> R, downrel |-> R, entry |-> SbEntry(w), lps |-> 0]]
  /\ pc' = "sb"
  /\ Assign(w)
  /\ UNCHANGED run

\* the loop of branch from its head (line 1009) to the return of branch or
\* to the next call of selectBranchingCandidate
BranchLoop(w, h) ==
  /\ IF BranchLoopCondition(w)
     THEN /\ BranchSelect(w)
          /\ hist' = [h EXCEPT !.cutoffobs = w.obs, !.infobs = w.infobs,
                               !.costobs = w.costobs]
     ELSE \E x \in BranchExit(w) :
            /\ Assign(x)
            /\ Return("branch", x.result,
                      [h EXCEPT !.cutoffobs = x.obs, !.infobs = x.infobs,
                                !.costobs = x.costobs, !.ladder = x.ladder,
                                !.pushed = IF x.result = "kBranched" THEN 1 ELSE 0])
  /\ UNCHANGED <<pruned_treeweight, nodequeue, symmetries, integral_cols, caller, propagating, stats>>

\* branch() is called on an open node that evaluateNode returned kOpen for
Branch ==
  /\ pc = "idle"
  /\ Calls("branch")
  /\ nodestack # <<>>
  /\ Top.opensubtrees = 2
  /\ hist.ret = Ret("evaluateNode", "kOpen")
  /\ BranchLoop([Work EXCEPT !.stack = SetTop(nodestack,
                   [Top EXCEPT !.branchingdecision.column = 0 - 1])], Step)

\* line 1193: evaluateNode on the child that selectBranchingCandidate
\* committed, and the loop from its head
BranchContinue ==
  /\ pc = "eval"
  /\ \E w \in EvaluateNodeOp(Work) :
       BranchLoop(w, [Step EXCEPT !.ret = IF BranchLoopCondition(w)
                                          THEN Ret("evaluateNode", w.result)
                                          ELSE Ret("none", "void")])

\* branchDownwards / branchUpwards called on an open, evaluated node with a
\* branching point p of an unfixed column; the point may also be given as the
\* bound value itself
PublicBranchInputs ==
  {<<c, p>> \in integral_cols \X FracPoints :
     ColLower(domchgstack, c) < p /\ p < ColUpper(domchgstack, c)}

BranchDownwards ==
  /\ pc = "idle"
  /\ Calls("branchDownwards")
  /\ nodestack # <<>>
  /\ Top.opensubtrees = 2
  /\ hist.ret = Ret("evaluateNode", "kOpen")
  /\ \E inp \in PublicBranchInputs, atbound \in BOOLEAN :
       LET b == BranchDownwardsOp([stack |-> nodestack, dom |-> LocalDom], inp[1],
                                  Floor(inp[2]), IF atbound THEN Floor(inp[2]) ELSE inp[2])
       IN /\ nodestack' = b.stack
          /\ domchgstack' = b.dom.stack
          /\ infeasible_pos' = b.dom.infpos
  /\ Return("branchDownwards", "void", [Step EXCEPT !.pushed = 1])
  /\ UNCHANGED <<depthoffset, treeweight, pruned_treeweight, upper_limit, lpstate,
                 nodequeue, symmetries, integral_cols, caller, propagating, stats>>

BranchUpwards ==
  /\ pc = "idle"
  /\ Calls("branchUpwards")
  /\ nodestack # <<>>
  /\ Top.opensubtrees = 2
  /\ hist.ret = Ret("evaluateNode", "kOpen")
  /\ \E inp \in PublicBranchInputs, atbound \in BOOLEAN :
       LET b == BranchUpwardsOp([stack |-> nodestack, dom |-> LocalDom], inp[1],
                                Ceil(inp[2]), IF atbound THEN Ceil(inp[2]) ELSE inp[2])
       IN /\ nodestack' = b.stack
          /\ domchgstack' = b.dom.stack
          /\ infeasible_pos' = b.dom.infpos
  /\ Return("branchUpwards", "void", [Step EXCEPT !.pushed = 1])
  /\ UNCHANGED <<depthoffset, treeweight, pruned_treeweight, upper_limit, lpstate,
                 nodequeue, symmetries, integral_cols, caller, propagating, stats>>

\* ------------------------------------------------- selectBranchingCandidate
Opposite(bt) == IF bt = kLower THEN kUpper ELSE kLower

\* line 276-278: evalqueue lists the fractional integers in the order the LP
\* reports them, here by column
RECURSIVE EvalQueue(_)
EvalQueue(F) ==
  IF F = {} THEN <<>>
  ELSE LET first == CHOOSE e \in F : \A f \in F : e[1] <= f[1]
       IN <<first>> \o EvalQueue(F \ {first})

\* the scores selectBestScore may compute for a candidate, in units above
\* feastol (assert(score >= 0.0), line 322), and the pairs (nodes, numnodes)
\* of its column in the node queue, in their order
ScoreValues == {0, 1, HighsInf}
NodeValues == {0, 1}
RECURSIVE SelectBestScore(_, _, _, _, _)
\* lines 293-343: selectBestScore runs over evalqueue from position k on; acc
\* holds best, bestscore and (bestnodes, bestnumnodes)
SelectBestScore(k, n, score, nodes, acc) ==
  IF k = n THEN acc.best
  ELSE IF \/ score[k] > acc.bestscore
          \/ score[k] >= acc.bestscore /\ nodes[k] > acc.bestnodes
  THEN SelectBestScore(k + 1, n, score, nodes,
                       [best |-> k, bestscore |-> score[k], bestnodes |-> nodes[k]])
  ELSE SelectBestScore(k + 1, n, score, nodes, acc)
\* lines 294-297: best = -1, bestscore = -1.0, bestnodes = -1.0
NoBest == [best |-> 0 - 1, bestscore |-> 0 - 1, bestnodes |-> 0 - 1]
\* line 351: the positions selectBestScore can return for n candidates
BestPositions(n) ==
  {SelectBestScore(0, n, score, nodes, NoBest) :
     score \in [0..(n - 1) -> ScoreValues], nodes \in [0..(n - 1) -> NodeValues]}
\* the candidates a pass of the loop can select
Selected(F) == {EvalQueue(F)[k + 1] : k \in BestPositions(Cardinality(F))}

\* the side of a candidate that is probed next: down first (line 369)
ProbedBoundType(sb, cand) == IF cand \notin sb.downrel THEN kUpper ELSE kLower
Unreliable(sb) ==
  {cand \in Selected(lpstate.fracints) : cand \notin sb.uprel \/ cand \notin sb.downrel}

\* a faulty trial: the probed side stays unreliable
MarkReliableNot(sb, cand, side) == [sb EXCEPT !.lps = @ + 1]
\* lines 406-429 and 561-582: a trial LP was solved to optimality and the
\* probed side is marked reliable
MarkReliable(sb, cand, side) ==
  IF side = kUpper
  THEN [sb EXCEPT !.downrel = @ \cup {cand}, !.lps = @ + 1]
  ELSE [sb EXCEPT !.uprel = @ \cup {cand}, !.lps = @ + 1]
\* lines 406-411 and 514-524: a trial LP ended with an error and both sides
\* are marked reliable
MarkBothReliable(sb, cand) ==
  [sb EXCEPT !.downrel = @ \cup {cand}, !.uprel = @ \cup {cand}, !.lps = @ + 1]

\* lines 373-377 and 530-534: the trial bound of the probed side is applied
TrialChange(cand, side) ==
  DomainChange(cand[1], side, IF side = kUpper THEN Floor(cand[2]) ELSE Ceil(cand[2]))
TrialDomain(dom, cand, side) == DomChangeBound(dom, TrialChange(cand, side), TRUE)

\* the trial domain after propagation found it infeasible
TrialInfeasible(dom, cand, side) ==
  LET d == TrialDomain(dom, cand, side)
  IN IF DomInfeasible(d) THEN d ELSE [d EXCEPT !.infpos = Len(d.stack) - 1]

\* a faulty undo: the trial bound stays on the stack
UndoTrialForgotten(dom) == dom

\* line 392: localdom.backtrack() undoes the trial bound
UndoTrial(dom) == DomBacktrack(dom)

\* lines 395-397: branchUpwards(col, upval, fracval) after a failed down side,
\* lines 550-552: branchDownwards(col, downval, fracval) after a failed up side
CommitOpposite(st, cand, failed) ==
  LET b == IF failed = kUpper
           THEN BranchUpwardsOp(st, cand[1], Ceil(cand[2]), cand[2])
           ELSE BranchDownwardsOp(st, cand[1], Floor(cand[2]), cand[2])
  IN [stack |-> CloseCommittedParent(b.stack), dom |-> b.dom]

\* lines 391 and 546: pseudocost.addCutoffObservation(col, upbranch) of the failed side
CutoffObservation(cand, failed) == <<cand[1], failed = kLower>>

\* lines 373-386 and 531-542: the trial bound is applied and propagated and
\* the orbits of the node, where they stay valid, fix columns; the outcomes
\* that leave the domain feasible
TrialStabilizer(cand, side) ==
  IF /\ Top.stabilizerOrbits # Null
     /\ OrbitsValidInChildNode(Top, TrialChange(cand, side))
  THEN Top.stabilizerOrbits ELSE Null
TrialPropagated(dom, cand, side) ==
  {d \in PropagateAndFix(TrialDomain(dom, cand, side), TrialStabilizer(cand, side), FALSE) :
     ~DomInfeasible(d)}

\* a faulty observation: the direction is always up
TrialInferenceObservationUp(dom, d, cand, side) ==
  <<cand[1], TRUE, Len(d.stack) - Len(dom.stack) - 1>>

\* lines 404 and 559: pseudocost.addInferenceObservation(col, inferences, upbranch)
TrialInferenceObservation(dom, d, cand, side) ==
  <<cand[1], side = kLower, Len(d.stack) - Len(dom.stack) - 1>>

\* lines 431 and 583: pseudocost.addObservation(col, delta, objdelta) of the
\* probed side
TrialObservation(cand, side) == <<cand[1], side = kLower>>

\* a faulty trial: the trial bound stays on the stack
TrialUndoneKept(d) == d

\* lines 526-527 and 681-682: localdom.backtrack() at the end of a trial
TrialUndone(d) == DomBacktrack(d)

\* what a trial leaves in the history: the observations and the trial LP
TrialHistory(cutoff, inf, cost, exit, trial) ==
  [Step EXCEPT !.cutoffobs = cutoff, !.infobs = inf, !.costobs = cost,
               !.sbexit = exit, !.trial = trial]

\* the trial LP of the probed side of cand, scaled optimal with objective
\* solobj: lines 453-461 (an integer feasible solution becomes the incumbent)
\* and lines 463-497 (dual says whether the LP is dual feasible, o is what
\* the propagation of the conflict finds when it is not)
TrialLimit(incumbent, solobj) ==
  IF incumbent THEN AddIncumbent(upper_limit, solobj) ELSE upper_limit
TrialExceeds(incumbent, solobj) == solobj > CutoffBound(TrialLimit(incumbent, solobj))
TrialConflict(d, dual, exceeds, o) == IF ~dual /\ exceeds THEN DomApply(d, o) ELSE d
\* a faulty trial: the opposite branch is committed whenever the objective
\* exceeds the cutoff bound
TrialCommitsAlways(d, dual, exceeds, o) == exceeds

TrialCommits(d, dual, exceeds, o) ==
  exceeds /\ (dual \/ DomInfeasible(TrialConflict(d, dual, exceeds, o)))
TrialLp(cand, side, solobj, dual, incumbent, infeas) ==
  [status |-> "optimal", cand |-> cand, side |-> side, solobj |-> solobj,
   cutoffbnd |-> CutoffBound(TrialLimit(incumbent, solobj)), dual |-> dual,
   infeas |-> infeas]

\* a one-sided commit: selectBranchingCandidate returns -1 and branch calls
\* evaluateNode on the committed child (line 1193)
SbCommit(cand, trialdom, h) ==
  LET failed == ProbedBoundType(loc.sb, cand)
      c == CommitOpposite([stack |-> nodestack, dom |-> UndoTrial(trialdom)],
                          cand, failed)
  IN /\ nodestack' = c.stack
     /\ domchgstack' = c.dom.stack
     /\ infeasible_pos' = c.dom.infpos
     /\ depthoffset' = CommitDepthOffset(depthoffset)
     /\ hist' = [h EXCEPT !.pushed = 1,
                          !.ret = Ret("selectBranchingCandidate", "-1")]
     /\ pc' = "eval"
     /\ loc' = [loc EXCEPT !.sb = NoSb]
     /\ UNCHANGED run

\* lines 350-360 and 1035-1190: a candidate is returned and the child
\* selection rule picks the direction
SbReturnCandidate ==
  /\ pc = "sb"
  /\ \E cand \in Selected(lpstate.fracints), mustStop \in BOOLEAN, bt \in {kLower, kUpper} :
       /\ mustStop \/ cand \notin Unreliable(loc.sb)
       /\ LET val == IF bt = kLower THEN Ceil(cand[2]) ELSE Floor(cand[2])
              cur == [Top EXCEPT !.branching_point = cand[2],
                                 !.branchingdecision = DomainChange(cand[1], bt, val)]
              b == BranchPush([stack |-> SetTop(nodestack, cur), dom |-> LocalDom])
          IN /\ nodestack' = b.stack
             /\ domchgstack' = b.dom.stack
             /\ infeasible_pos' = b.dom.infpos
  /\ Return("branch", "kBranched", [Step EXCEPT !.pushed = 1])
  /\ UNCHANGED <<depthoffset, treeweight, pruned_treeweight, upper_limit, lpstate,
                 nodequeue, symmetries, integral_cols, caller, propagating, stats>>

\* lines 369-402 and 526-557: the trial bound propagates to infeasibility
SbTrialPropInfeasible ==
  /\ pc = "sb"
  /\ \E cand \in Unreliable(loc.sb) :
       LET side == ProbedBoundType(loc.sb, cand)
       IN SbCommit(cand, TrialInfeasible(LocalDom, cand, side),
                   TrialHistory(<<CutoffObservation(cand, side)>>, <<>>, <<>>,
                                "propinf",
                                [status |-> "propinf", cand |-> cand, side |-> side]))
  /\ UNCHANGED <<treeweight, pruned_treeweight, upper_limit, lpstate, nodequeue,
                 symmetries, integral_cols, caller, propagating, stats>>

\* lines 499-513 and 654-668: the trial LP is infeasible
SbTrialLpInfeasible ==
  /\ pc = "sb"
  /\ \E cand \in Unreliable(loc.sb) :
       LET side == ProbedBoundType(loc.sb, cand)
       IN \E d \in TrialPropagated(LocalDom, cand, side) :
            SbCommit(cand, d,
                     TrialHistory(<<CutoffObservation(cand, side)>>,
                                  <<TrialInferenceObservation(LocalDom, d, cand, side)>>,
                                  <<>>, "lpinf",
                                  [status |-> "lpinf", cand |-> cand, side |-> side]))
  /\ UNCHANGED <<treeweight, pruned_treeweight, upper_limit, lpstate, nodequeue,
                 symmetries, integral_cols, caller, propagating, stats>>

\* lines 465-498 and 620-653: the trial objective exceeds the cutoff bound
\* and the opposite branch is committed
SbTrialCutoff ==
  /\ pc = "sb"
  /\ \E cand \in Unreliable(loc.sb), solobj \in ObjValues, dual \in BOOLEAN,
        incumbent \in BOOLEAN :
       LET side == ProbedBoundType(loc.sb, cand)
           exceeds == TrialExceeds(incumbent, solobj)
       IN \E d \in TrialPropagated(LocalDom, cand, side) :
            \E o \in PropOutcomes(d) :
              /\ TrialCommits(d, dual, exceeds, o)
              /\ upper_limit' = TrialLimit(incumbent, solobj)
              /\ SbCommit(cand, TrialConflict(d, dual, exceeds, o),
                          TrialHistory(<<>>,
                                       <<TrialInferenceObservation(LocalDom, d, cand, side)>>,
                                       <<TrialObservation(cand, side)>>, "cutoff",
                                       TrialLp(cand, side, solobj, dual, incumbent,
                                               DomInfeasible(TrialConflict(d, dual, exceeds, o)))))
  /\ UNCHANGED <<treeweight, pruned_treeweight, lpstate, nodequeue,
                 symmetries, integral_cols, caller, propagating, stats>>

\* lines 415-463 and 569-618: the trial LP is optimal, the side becomes
\* reliable, an integer feasible trial solution becomes the incumbent; the
\* trial bound is undone (lines 526-528, 681-683)
SbTrialOptimal ==
  /\ pc = "sb"
  /\ \E cand \in Unreliable(loc.sb), solobj \in ObjValues, dual \in BOOLEAN,
        incumbent \in BOOLEAN :
       LET side == ProbedBoundType(loc.sb, cand)
           exceeds == TrialExceeds(incumbent, solobj)
       IN \E d \in TrialPropagated(LocalDom, cand, side) :
            \E o \in PropOutcomes(d) :
              /\ ~TrialCommits(d, dual, exceeds, o)
              /\ loc' = [loc EXCEPT !.sb = MarkReliable(@, cand, side)]
              /\ upper_limit' = TrialLimit(incumbent, solobj)
              /\ domchgstack' = TrialUndone(TrialConflict(d, dual, exceeds, o)).stack
              /\ infeasible_pos' = TrialUndone(TrialConflict(d, dual, exceeds, o)).infpos
              /\ hist' = TrialHistory(<<>>,
                                      <<TrialInferenceObservation(LocalDom, d, cand, side)>>,
                                      <<TrialObservation(cand, side)>>, "none",
                                      TrialLp(cand, side, solobj, dual, incumbent,
                                              DomInfeasible(TrialConflict(d, dual, exceeds, o))))
  /\ UNCHANGED <<nodestack, depthoffset, treeweight,
                 pruned_treeweight, lpstate, nodequeue, symmetries,
                 integral_cols, caller, propagating, stats, run, pc>>

\* lines 514-524 and 669-679: an LP error makes both sides reliable; the
\* trial bound is undone
SbTrialError ==
  /\ pc = "sb"
  /\ \E cand \in Unreliable(loc.sb) :
       LET side == ProbedBoundType(loc.sb, cand)
       IN \E d \in TrialPropagated(LocalDom, cand, side) :
            /\ loc' = [loc EXCEPT !.sb = MarkBothReliable(@, cand)]
            /\ domchgstack' = TrialUndone(d).stack
            /\ infeasible_pos' = TrialUndone(d).infpos
            /\ hist' = TrialHistory(<<>>,
                                    <<TrialInferenceObservation(LocalDom, d, cand, side)>>,
                                    <<>>, "none",
                                    [status |-> "error", cand |-> cand, side |-> side])
  /\ UNCHANGED <<nodestack, depthoffset, treeweight,
                 pruned_treeweight, upper_limit, lpstate, nodequeue, symmetries,
                 integral_cols, caller, propagating, stats, run, pc>>

\* ------------------------------------------------------------ backtrack
\* the state the backtracking operations work on: node stack, local domain,
\* depth offset, tree weight, node queue, and the nodes parked by the call;
\* flips is history: what backtrack or backtrackPlunge did with each sibling
\* it flipped to
SearchState ==
  [stack |-> nodestack, dom |-> LocalDom, off |-> depthoffset, tw |-> treeweight,
   queue |-> nodequeue, parked |-> <<>>, ret |-> FALSE, flips |-> <<>>]

\* a node of the queue: nodequeue.emplaceNode(domchgstack, branchings,
\* lower_bound, estimate, depth); the field by is history: the operation
\* that emplaced the node
OpenNode(reduced, lb, est, depth, by) ==
  [domchgstack |-> reduced.domchgstack, branchings |-> reduced.branchings,
   lower_bound |-> lb, estimate |-> est, depth |-> depth, by |-> by]

\* lines 1383-1397: the sibling's bound is applied and propagated; the
\* outcomes are the local domains that can result
SiblingOutcomes(cur, dom) ==
  LET pass == OrbitsValidInChildNode(cur, cur.branchingdecision)
      d == DomChangeBound(dom, cur.branchingdecision, TRUE)
  IN IF cur.lower_bound > GetCutoffBound \/ DomInfeasible(d)
     THEN {d}
     ELSE PropagateAndFix(d, IF pass THEN cur.stabilizerOrbits ELSE Null, FALSE)
SiblingPruned(cur, d) == cur.lower_bound > GetCutoffBound \/ DomInfeasible(d)

\* a faulty weight: that of the flipped frame itself
SiblingWeightOfFrame(stk, off) == Pow05(GetCurrentDepth(stk, off) - 1)
\* line 1401: the weight of a pruned sibling
SiblingWeight(stk, off) == Pow05(GetCurrentDepth(stk, off))

\* lines 1337-1351: the node that became the top is propagated again
RepropagateOutcomes(stk, dom) ==
  IF TopOf(stk).opensubtrees # 0
  THEN PropagateAndFix(dom, TopOf(stk).stabilizerOrbits, TRUE)
  ELSE {dom}
Repropagated(stk, d) ==
  IF TopOf(stk).opensubtrees # 0 /\ DomInfeasible(d)
  THEN SetTop(stk, [TopOf(stk) EXCEPT !.opensubtrees = 0])
  ELSE stk

\* a faulty push: the call does not report it
SiblingPushedUnreported(s, cur, d) ==
  [s EXCEPT !.stack = Append(SetTop(s.stack, cur),
                             ChildNode(cur,
                                       OrbitsValidInChildNode(cur, cur.branchingdecision),
                                       Len(s.dom.stack))),
            !.dom = d, !.ret = FALSE]
\* lines 1404-1419: the sibling is pushed and backtrack returns true
SiblingPushed(s, cur, d) ==
  [s EXCEPT !.stack = Append(SetTop(s.stack, cur),
                             ChildNode(cur,
                                       OrbitsValidInChildNode(cur, cur.branchingdecision),
                                       Len(s.dom.stack))),
            !.dom = d, !.ret = TRUE]

\* lines 1398-1403: the sibling is pruned, its weight added
SiblingDropped(s, cur, d) ==
  [s EXCEPT !.stack = SetTop(s.stack, cur), !.dom = DomBacktrack(d),
            !.tw = @ + SiblingWeight(s.stack, s.off)]

\* lines 1522-1548: the scores of the nearest still open ancestor decide;
\* scores are multiples of a unit above feastol
PlungeScores == {0, 1}
OpenAncestors(stk) == {i \in 1..(Len(stk) - 1) : stk[i].opensubtrees # 0}
NodeToQueue(stk, nodeScore, ancestorScoreInactive, ancestorScoreActive) ==
  /\ OpenAncestors(stk) # {}
  /\ ancestorScoreInactive - ancestorScoreActive > nodeScore
NodeToQueueOutcomes(stk) ==
  {NodeToQueue(stk, n, i, a) : n \in PlungeScores, i \in PlungeScores, a \in PlungeScores}

\* lines 1476-1487 and 1528-1540: the pseudocost scores backtrackPlunge can
\* read: the score of the sibling and, for an ancestor, the scores of its
\* inactive and of its active direction
NoScores == [node |-> 0, ancestors |-> <<>>]
AncestorScores == [inactive : PlungeScores, active : PlungeScores]
ScoreChoices(stk) ==
  {[node |-> n, ancestors |-> f] :
     n \in PlungeScores, f \in [OpenAncestors(stk) -> AncestorScores]}

\* lines 1522-1548: the loop runs down from the frame below the top, skips
\* the closed frames and stops at the first frame that is still open
\* a faulty loop: it runs on to the last open frame
PlungeAncestorFarthest(stk) == CHOOSE i \in OpenAncestors(stk) : \A j \in OpenAncestors(stk) : i <= j
PlungeAncestor(stk) == SetMax(OpenAncestors(stk))
PlungeToQueue(stk, sc) ==
  IF OpenAncestors(stk) = {} THEN FALSE
  ELSE NodeToQueue(stk, sc.node, sc.ancestors[PlungeAncestor(stk)].inactive,
                   sc.ancestors[PlungeAncestor(stk)].active)

\* history of a flip of backtrackPlunge: s is the state before the sibling's
\* bound is applied, t the state the flip leaves, cur the flipped frame
FlipEvent(fate, sc, cur, s, t) ==
  [fate |-> fate, scores |-> sc, decision |-> cur.branchingdecision,
   depth |-> GetCurrentDepth(s.stack, s.off) - 1,
   pos |-> Len(s.stack), entry |-> s.dom, domain |-> t.dom,
   lower_bound |-> cur.lower_bound,
   parent |-> t.stack[Len(s.stack)].opensubtrees,
   frames |-> Len(t.stack) - Len(s.stack),
   weight |-> t.tw - s.tw,
   nodes |-> SubSeq(t.queue, Len(s.queue) + 1, Len(t.queue))]
Flipped(fate, sc, cur, s, t) ==
  [t EXCEPT !.flips = Append(@, FlipEvent(fate, sc, cur, s, t))]

\* lines 1551-1557: the node that backtrackPlunge parks
ParkedDomain(d) == DomBacktrack(d)
ParkedNode(cur, d, stk, off) ==
  OpenNode(GetReducedDomainChangeStack(ParkedDomain(d).stack), cur.lower_bound,
           cur.estimate, GetCurrentDepth(stk, off) + 1, "backtrackPlunge")
\* a faulty park: the sibling's weight is added as if it were pruned
SiblingParkedWeighted(s, cur, d) ==
  [s EXCEPT !.stack = SetTop(s.stack, cur), !.dom = ParkedDomain(d),
            !.queue = Append(@, ParkedNode(cur, d, s.stack, s.off)),
            !.parked = Append(@, ParkedNode(cur, d, s.stack, s.off)),
            !.tw = @ + SiblingWeight(s.stack, s.off)]
SiblingParked(s, cur, d) ==
  [s EXCEPT !.stack = SetTop(s.stack, cur), !.dom = ParkedDomain(d),
            !.queue = Append(@, ParkedNode(cur, d, s.stack, s.off)),
            !.parked = Append(@, ParkedNode(cur, d, s.stack, s.off))]

\* the loops of backtrack (lines 1321-1411) and backtrackPlunge (lines
\* 1429-1567), as the set of states they can end in: Unwind pops the closed
\* top frame and propagates the frame below, Flip turns an open frame to its
\* sibling and prunes, parks or pushes it
RECURSIVE Unwind(_, _), Flip(_, _)
Unwind(s, plunge) ==
  LET off == s.off + TopOf(s.stack).skipDepthCount
      stk == Pop(s.stack)
  IN IF stk = <<>>
     THEN {[s EXCEPT !.stack = stk, !.dom = DomBacktrackToGlobal(s.dom), !.off = off,
                     !.ret = FALSE]}
     ELSE UNION {LET t == [s EXCEPT !.stack = Repropagated(stk, d), !.dom = d,
                                    !.off = off]
                 IN IF TopOf(t.stack).opensubtrees = 0
                    THEN Unwind(t, plunge) ELSE Flip(t, plunge) :
                 d \in RepropagateOutcomes(stk, DomBacktrack(s.dom))}
Flip(s, plunge) ==
  LET cur == FlipFrame(TopOf(s.stack))
  IN UNION {IF SiblingPruned(cur, d)
            THEN Unwind(Flipped("pruned", NoScores, cur, s, SiblingDropped(s, cur, d)),
                        plunge)
            ELSE IF ~plunge
            THEN {Flipped("pushed", NoScores, cur, s, SiblingPushed(s, cur, d))}
            ELSE UNION {IF PlungeToQueue(s.stack, sc)
                        THEN IF Len(s.queue) < MaxQueue
                             THEN Unwind(Flipped("parked", sc, cur, s,
                                                 SiblingParked(s, cur, d)), plunge)
                             ELSE {}
                        ELSE {Flipped("pushed", sc, cur, s, SiblingPushed(s, cur, d))} :
                        sc \in ScoreChoices(s.stack)} :
            d \in SiblingOutcomes(cur, s.dom)}

\* the state an operation of the backtrack family ends in is installed; all
\* of them flush the local domain into the LP before they return
Backtracked(op, val, s, h) ==
  /\ nodestack' = s.stack
  /\ domchgstack' = s.dom.stack
  /\ infeasible_pos' = s.dom.infpos
  /\ depthoffset' = s.off
  /\ treeweight' = s.tw
  /\ nodequeue' = s.queue
  /\ lpstate' = [NoLp EXCEPT !.object = lpstate.object]
  /\ Return(op, val,
            [h EXCEPT !.queued = s.parked, !.flips = s.flips,
                      !.pure = @ /\ s.parked = <<>>,
                      !.pushed = IF s.ret THEN 1 ELSE 0])
  /\ UNCHANGED <<pruned_treeweight, upper_limit, symmetries, integral_cols, caller, propagating, stats>>

BooleanResult(b) == IF b THEN "true" ELSE "false"

\* an operation of the backtrack family called on an empty stack returns false
BacktrackEmpty(op) ==
  /\ nodestack = <<>>
  /\ hist.ret.op # op
  /\ Return(op, "false", Step)
  /\ UNCHANGED <<nodestack, domchgstack, infeasible_pos, depthoffset, treeweight,
                 pruned_treeweight, upper_limit, lpstate, nodequeue, symmetries,
                 integral_cols, caller, propagating, stats>>

\* backtrack(), called with a closed top frame
Backtrack ==
  /\ pc = "idle"
  /\ Calls("backtrack")
  /\ \/ BacktrackEmpty("backtrack")
     \/ /\ nodestack # <<>>
        /\ Top.opensubtrees = 0
        /\ \E s \in Unwind(SearchState, FALSE) :
             Backtracked("backtrack", BooleanResult(s.ret), s, Step)

\* backtrackPlunge(nodequeue), called with a closed top frame
BacktrackPlunge ==
  /\ pc = "idle"
  /\ Calls("backtrackPlunge")
  /\ \/ BacktrackEmpty("backtrackPlunge")
     \/ /\ nodestack # <<>>
        /\ Top.opensubtrees = 0
        /\ \E s \in Unwind(SearchState, TRUE) :
             Backtracked("backtrackPlunge", BooleanResult(s.ret), s, Step)

\* ------------------------------------------------------ backtrackUntilDepth
TargetDepths == 1..(MaxDepth + 1)

\* a faulty test: a frame at the target depth stays
CloseBelowDepth(stk, off, targetDepth) ==
  IF GetCurrentDepth(stk, off) > targetDepth
  THEN SetTop(stk, [TopOf(stk) EXCEPT !.opensubtrees = 0])
  ELSE stk
\* lines 1580 and 1602
CloseAtDepth(stk, off, targetDepth) ==
  IF GetCurrentDepth(stk, off) >= targetDepth
  THEN SetTop(stk, [TopOf(stk) EXCEPT !.opensubtrees = 0])
  ELSE stk

\* lines 1605-1638: the deepest remaining open frame is flipped and its
\* sibling pushed, without propagation
FlipUntilDepth(s) ==
  LET cur == FlipFrame(TopOf(s.stack))
  IN SiblingPushed(s, cur, DomChangeBound(s.dom, cur.branchingdecision, TRUE))

\* lines 1582-1603: the loop
RECURSIVE UnwindUntilDepth(_, _)
UnwindUntilDepth(s, targetDepth) ==
  IF TopOf(s.stack).opensubtrees # 0 THEN FlipUntilDepth(s)
  ELSE LET off == s.off + TopOf(s.stack).skipDepthCount
           stk == Pop(s.stack)
           dom == DomBacktrack(s.dom)
       IN IF stk = <<>>
          THEN [s EXCEPT !.stack = stk, !.dom = dom, !.off = off, !.ret = FALSE]
          ELSE UnwindUntilDepth([s EXCEPT !.stack = CloseAtDepth(stk, off, targetDepth),
                                          !.dom = dom, !.off = off], targetDepth)

\* backtrackUntilDepth(targetDepth), called when the top frame is closed or
\* at least as deep as the target
BacktrackUntilDepth ==
  /\ pc = "idle"
  /\ Calls("backtrackUntilDepth")
  /\ \/ BacktrackEmpty("backtrackUntilDepth")
     \/ /\ nodestack # <<>>
        /\ \E targetDepth \in TargetDepths :
             /\ Top.opensubtrees = 0
                \/ GetCurrentDepth(nodestack, depthoffset) >= targetDepth
             /\ LET s == UnwindUntilDepth(
                           [SearchState EXCEPT !.stack =
                              CloseAtDepth(nodestack, depthoffset, targetDepth)],
                           targetDepth)
                IN Backtracked("backtrackUntilDepth", BooleanResult(s.ret), s,
                               [Step EXCEPT !.pure = FALSE, !.target = targetDepth])

\* ------------------------------------------------------ currentNodeToQueue
\* lines 696-702: the outcomes are the local domains after propagation
QueueOutcomes(stk, dom) ==
  IF TopOf(stk).lower_bound > GetCutoffBound THEN {dom}
  ELSE {DomApply(dom, o) : o \in PropOutcomes(dom)}
QueuePruned(stk, d) == TopOf(stk).lower_bound > GetCutoffBound \/ DomInfeasible(d)

\* lines 704-708: the node that currentNodeToQueue emplaces
QueuedNode(stk, d, off) ==
  OpenNode(GetReducedDomainChangeStack(d.stack), TopOf(stk).lower_bound,
           TopOf(stk).estimate, GetCurrentDepth(stk, off), "currentNodeToQueue")

\* lines 695-711: the current node is pruned or emplaced, and closed
NodeToQueueOrPruned(s, d) ==
  LET closed == SetTop(s.stack, [TopOf(s.stack) EXCEPT !.opensubtrees = 0])
  IN IF QueuePruned(s.stack, d)
     THEN [s EXCEPT !.stack = closed, !.dom = d,
                    !.tw = @ + PrunedWeight(s.stack, s.off)]
     ELSE [s EXCEPT !.stack = closed, !.dom = d,
                    !.queue = Append(@, QueuedNode(s.stack, d, s.off)),
                    !.parked = Append(@, QueuedNode(s.stack, d, s.off))]

\* currentNodeToQueue(nodequeue) on an open current node, with the call of
\* backtrack() at line 713
CurrentNodeToQueue ==
  /\ pc = "idle"
  /\ Calls("currentNodeToQueue")
  /\ nodestack # <<>>
  /\ Top.opensubtrees = 2
  /\ \E d \in QueueOutcomes(nodestack, LocalDom) :
       /\ QueuePruned(nodestack, d) \/ Len(nodequeue) < MaxQueue
       /\ \E s \in Unwind(NodeToQueueOrPruned(SearchState, d), FALSE) :
            Backtracked("currentNodeToQueue", "void", s, Step)

\* ------------------------------------------------------ openNodesToQueue
\* lines 732-753: one pass of the loop prunes or emplaces the current node
\* and closes it; the field by of the node names this operation
NodeOfOpenNodes(s, d) ==
  LET t == NodeToQueueOrPruned(s, d)
      named == [i \in DOMAIN t.queue |->
                  IF i > Len(s.queue) THEN [t.queue[i] EXCEPT !.by = "openNodesToQueue"]
                  ELSE t.queue[i]]
  IN [t EXCEPT !.queue = named,
               !.parked = SubSeq(named, Len(nodequeue) + 1, Len(named))]

\* lines 731-757: the loop, as the set of states it can end in; every pass
\* ends with backtrack(false)
RECURSIVE OpenNodesLoop(_)
OpenNodesLoop(s) ==
  IF s.stack = <<>> THEN {s}
  ELSE UNION {UNION {OpenNodesLoop(t) : t \in Unwind(NodeOfOpenNodes(s, d), FALSE)} :
              d \in QueueOutcomes(s.stack, s.dom)}

\* openNodesToQueue(nodequeue) on a non-empty stack: a closed current node
\* is left by backtrack(false) first (lines 725-729)
OpenNodesToQueue ==
  /\ pc = "idle"
  /\ Calls("openNodesToQueue")
  /\ nodestack # <<>>
  /\ \E s \in (IF Top.opensubtrees = 0
               THEN UNION {OpenNodesLoop(t) : t \in Unwind(SearchState, FALSE)}
               ELSE OpenNodesLoop(SearchState)) :
       Backtracked("openNodesToQueue", "void", s, Step)

\* ------------------------------------------------------ flushStatistics
\* The counters of flushStatistics (lines 766-779) in its order, for the
\* drivers that share the MIP-wide data: stats.local[d] are the counters of
\* driver d, stats.global the MIP-wide ones; stats.at[d] is the position of
\* d in flushStatistics (0 outside, 2k - 1 between the read and the write of
\* the k-th counter) and stats.reg[d] the value it has read.  stats.worked
\* and stats.before are history: the work counted so far, and the counters
\* as d found them when it entered flushStatistics.
Counters ==
  <<"nnodes", "treeweight", "lpiterations", "heurlpiterations", "sblpiterations">>
NoCounts == [c \in 1..Len(Counters) |-> 0]
NoStats == [local |-> <<>>, global |-> NoCounts, at |-> <<>>, reg |-> <<>>,
            worked |-> NoCounts, before |-> <<>>]
\* lines 769-770
FlushStatistics ==
  /\ pc = "idle"
  /\ Calls("flushStatistics")
  /\ treeweight # 0
  /\ pruned_treeweight' = pruned_treeweight + treeweight
  /\ treeweight' = 0
  /\ Return("flushStatistics", "void", Step)
  /\ UNCHANGED <<nodestack, domchgstack, infeasible_pos, depthoffset, upper_limit,
                 lpstate, nodequeue, symmetries, integral_cols, caller, propagating, stats>>

\* the main loop starts from the root node in the queue
RootNode == OpenNode(GetReducedDomainChangeStack(<<>>), MaxObj, MaxObj, 1, "root")

\* the search is constructed on a problem for an owner
InitSearch(problems, users) ==
  /\ nodestack = <<>>
  /\ domchgstack = <<>>
  /\ infeasible_pos = -1
  /\ depthoffset = 0
  /\ treeweight = 0
  /\ pruned_treeweight = 0
  /\ lpstate = NoLp
  /\ \E p \in problems, u \in users :
       /\ integral_cols = p.integral_cols
       /\ symmetries = p.symmetries
       /\ propagating = p.propagating
       /\ caller = u.caller
       /\ upper_limit = u.upper_limit
  /\ nodequeue = IF caller = "mainloop" THEN <<RootNode>> ELSE <<>>
  /\ pc = "idle"
  /\ loc = NoLoc
  /\ hist = NoHistory

\* a single driver that runs its operations one by one
InitOn(problems, users) ==
  /\ InitSearch(problems, users)
  /\ stats = NoStats
  /\ run = NoRun

Init == InitOn(Problems, Users)

\* the same driver on problems with symmetries
SymmetricUsers == {u \in Users : u.upper_limit = HighsInf}
InitSym == InitOn(SymmetricProblems, SymmetricUsers)

Next ==
  \/ CreateNewNode
  \/ InstallNode
  \/ EvaluateNode
  \/ Branch
  \/ BranchContinue
  \/ BranchDownwards
  \/ BranchUpwards
  \/ SbReturnCandidate
  \/ SbTrialPropInfeasible
  \/ SbTrialLpInfeasible
  \/ SbTrialCutoff
  \/ SbTrialOptimal
  \/ SbTrialError
  \/ Backtrack
  \/ BacktrackPlunge
  \/ BacktrackUntilDepth
  \/ CurrentNodeToQueue
  \/ OpenNodesToQueue
  \/ FlushStatistics

Spec == Init /\ [][Next]_vars

\* the main loop on a problem with two integer columns, where the plunge has
\* several open ancestors below the node it returns to; propagation finds
\* nothing on this problem and its pseudocosts are reliable, so that strong
\* branching returns a candidate without trials
PlungeProblems ==
  {[integral_cols |-> {1, 2}, symmetries |-> NoSymmetries, propagating |-> FALSE]}
PlungeUsers == {u \in Users : u.caller = "mainloop" /\ u.upper_limit = HighsInf}
InitPlunge == InitOn(PlungeProblems, PlungeUsers)

\* the LP solver does not fail on this problem: a node that evaluateNode
\* leaves open has a fractional LP solution, so that branch never takes a
\* fallback path
EvaluateNodeExactLp ==
  EvaluateNode /\ (hist'.ret.val = "kOpen" => lpstate'.fracints # {})

NextPlunge ==
  \/ InstallNode
  \/ EvaluateNodeExactLp
  \/ Branch
  \/ SbReturnCandidate
  \/ BacktrackPlunge

SpecPlunge == InitPlunge /\ [][NextPlunge]_vars

\* a dive on the problem with two integer columns whose pseudocosts need not
\* be reliable, so that strong branching probes several candidates
NextProbe ==
  \/ InstallNode
  \/ EvaluateNodeExactLp
  \/ Branch
  \/ BranchContinue
  \/ SbReturnCandidate
  \/ SbTrialPropInfeasible
  \/ SbTrialLpInfeasible
  \/ SbTrialCutoff
  \/ SbTrialOptimal
  \/ SbTrialError

SpecProbe == InitPlunge /\ [][NextProbe]_vars

SpecSym == InitSym /\ [][Next]_vars

\* ------------------------------------------- flushStatistics, step by step
\* the drivers that share the MIP-wide data: one, or several that the
\* outside world runs concurrently
InitFlush ==
  /\ InitSearch(PlungeProblems, PlungeUsers)
  /\ run = NoRun
  /\ \E n \in 1..MaxDrivers :
       stats = [local |-> [d \in 1..n |-> NoCounts], global |-> NoCounts,
                at |-> [d \in 1..n |-> 0], reg |-> [d \in 1..n |-> 0],
                worked |-> NoCounts,
                before |-> [d \in 1..n |-> [local |-> NoCounts, global |-> NoCounts]]]

Drivers == DOMAIN stats.local

\* lines 782-794: the read paths add the local and the MIP-wide counter
Getter(d, k) == stats.local[d][k] + stats.global[k]
GetTotalLpIterations(d) == Getter(d, 3)
GetHeuristicLpIterations(d) == Getter(d, 4)
GetStrongBranchingLpIterations(d) == Getter(d, 5)

\* a driver outside flushStatistics counts a node, a pruned weight or LP
\* iterations (lines 992, 1645 and the iteration counts of the LP solves)
Counted ==
  stats.worked[1] + stats.worked[2] + stats.worked[3] + stats.worked[4] + stats.worked[5]
CountWork ==
  /\ \E d \in Drivers, k \in DOMAIN Counters :
       /\ stats.at[d] = 0
       /\ Counted < MaxCount
       /\ stats' = [stats EXCEPT !.local[d][k] = @ + 1, !.worked[k] = @ + 1]
  /\ UNCHANGED <<search, run>>

\* the left-hand side of a counter's += (lines 766, 769, 772, 775, 778) is
\* read; the first read enters flushStatistics
FlushRead ==
  /\ \E d \in Drivers :
       /\ stats.at[d] % 2 = 0
       /\ stats' = [stats EXCEPT
                      !.reg[d] = stats.global[stats.at[d] \div 2 + 1],
                      !.at[d] = @ + 1,
                      !.before[d] = IF stats.at[d] = 0
                                    THEN [local |-> stats.local[d], global |-> stats.global]
                                    ELSE @]
  /\ UNCHANGED <<search, run>>

\* a faulty flush: the local counter is not reset
FlushWriteKeepsLocal(d) ==
  LET k == (stats.at[d] + 1) \div 2
  IN [stats EXCEPT !.global[k] = stats.reg[d] + stats.local[d][k],
                   !.at[d] = IF k = Len(Counters) THEN 0 ELSE @ + 1]
\* the sum is written to the MIP-wide counter and the local counter reset
\* (lines 766-767, 769-770, 772-773, 775-776, 778-779)
FlushWrite(d) ==
  LET k == (stats.at[d] + 1) \div 2
  IN [stats EXCEPT !.global[k] = stats.reg[d] + stats.local[d][k],
                   !.local[d][k] = 0,
                   !.at[d] = IF k = Len(Counters) THEN 0 ELSE @ + 1]

FlushStore ==
  /\ \E d \in Drivers :
       /\ stats.at[d] % 2 = 1
       /\ stats' = FlushWrite(d)
  /\ UNCHANGED <<search, run>>

NextFlush ==
  \/ CountWork
  \/ FlushRead
  \/ FlushStore

SpecFlush == InitFlush /\ [][NextFlush]_vars


\* ------------------------------------------------- solveDepthFirst and dive
\* lines 1657-1659: solveDepthFirst(maxbacktracks) is called on an open
\* current node and comes to the head of its loop
SolveDepthFirst ==
  /\ pc = "idle"
  /\ run.pos = "none"
  /\ Calls("solveDepthFirst")
  /\ run.calls < MaxCalls
  /\ nodestack # <<>>
  /\ Top.opensubtrees = 2
  /\ \E n \in 0..MaxBacktracks :
       run' = SolveLoopHead([NoRun EXCEPT !.maxbacktracks = n, !.budget = n,
                                          !.nnodes = run.nnodes,
                                          !.calls = run.calls + 1])
  /\ pc' = "idle"
  /\ loc' = NoLoc
  /\ hist' = Step
  /\ UNCHANGED <<nodestack, domchgstack, infeasible_pos, depthoffset, treeweight,
                 pruned_treeweight, upper_limit, lpstate, nodequeue, symmetries,
                 integral_cols, caller, propagating, stats>>

\* lines 1648-1650: checkLimits() after evaluateNode; a limit returns the
\* result of the evaluation, otherwise a result other than kOpen does and
\* kOpen goes on to branch
DiveCheckLimits ==
  /\ pc = "idle"
  /\ run.pos = "checkLimits"
  /\ \E lim \in BOOLEAN :
       run' = IF lim
              THEN DiveReturned([run EXCEPT !.limit = TRUE], run.last, "checkLimits")
              ELSE IF run.last # "kOpen"
              THEN DiveReturned([run EXCEPT !.limit = FALSE], run.last, "evaluateNode")
              ELSE [run EXCEPT !.limit = FALSE, !.pos = "branch"]
  /\ UNCHANGED <<search, stats>>

\* the owner creates a root and calls solveDepthFirst on it
DiveUsers == {[caller |-> "diver", upper_limit |-> u] : u \in {HighsInf, MaxObj}}
InitDive == InitOn(Problems, DiveUsers)

NextDive ==
  \/ CreateNewNode
  \/ SolveDepthFirst
  \/ EvaluateNode
  \/ DiveCheckLimits
  \/ Branch
  \/ BranchContinue
  \/ SbReturnCandidate
  \/ SbTrialPropInfeasible
  \/ SbTrialLpInfeasible
  \/ SbTrialCutoff
  \/ SbTrialOptimal
  \/ SbTrialError
  \/ Backtrack

SpecDive == InitDive /\ [][NextDive]_vars

\* solveDepthFirst runs in the thread of its caller
DiveRunning == run.pos # "none"

\* ------------------------------------------- the strong-branching budget
\* One driver in branch, seen through its iteration counters and the
\* pseudocost settings: loc.minrel is the local minrel of branch (line 1006),
\* loc.minreliable and loc.degeneracy what pseudocost.setMinReliable and
\* setDegeneracyFactor were last called with, loc.sbmaxiters the budget of
\* the pass.  loc.passes, loc.trials, loc.last and loc.lowest, the lowest
\* value the parameter was set to, are history.
SbBaseIters == 100000
\* iteration counts the search may be entered with, around the thresholds of
\* the budget, and the iterations one LP solve may take
SbItersOnEntry ==
  {0, SbBaseIters \div 2, SbBaseIters \div 2 + 1, (3 * SbBaseIters) \div 4,
   SbBaseIters, SbBaseIters + 1, SbBaseIters + 3}
OtherItersOnEntry == {0, 1, 6}
TrialIters == {0, 1}
EvalIters == {0, 8}

InitBudget ==
  /\ InitSearch(PlungeProblems, PlungeUsers)
  /\ run = NoRun
  /\ \E sb \in SbItersOnEntry, other \in OtherItersOnEntry :
       stats = [NoStats EXCEPT !.local = <<NoCounts>>,
                               !.global = [NoCounts EXCEPT ![3] = sb + other, ![5] = sb]]

\* lines 1014-1018: sbmaxiters
SbMaxIters(total, heur, sb) == SbBaseIters + ((total - heur - sb) \div 2)

\* line 1025: int(minrel - reductionratio * (minrel - 1)) with
\* reductionratio = num / den
MinRelReduced(minrel, num, den) == minrel - ((num * (minrel - 1) + den - 1) \div den)

\* a faulty pass: the parameter is set back to minrel below half the budget
BudgetMinReliableReset(minrel, current, sbiters, sbmaxiters) ==
  IF sbiters > sbmaxiters THEN 0
  ELSE IF sbiters > sbmaxiters \div 2
  THEN LET r == MinRelReduced(minrel, sbiters - sbmaxiters \div 2,
                              sbmaxiters - sbmaxiters \div 2)
       IN IF r < minrel THEN r ELSE minrel
  ELSE minrel

\* lines 1019-1027: what pseudocost's min-reliable parameter is after the
\* budget test of a pass; current is its value before
BudgetMinReliable(minrel, current, sbiters, sbmaxiters) ==
  IF sbiters > sbmaxiters THEN 0
  ELSE IF sbiters > sbmaxiters \div 2
  THEN LET r == MinRelReduced(minrel, sbiters - sbmaxiters \div 2,
                              sbmaxiters - sbmaxiters \div 2)
       IN IF r < minrel THEN r ELSE minrel
  ELSE current

\* the variables the budget does not touch
budgetrest == <<nodestack, domchgstack, infeasible_pos, depthoffset, treeweight,
                pruned_treeweight, upper_limit, lpstate, nodequeue, symmetries,
                integral_cols, propagating, caller, hist, run>>

\* line 1006: branch is entered, the pseudocost parameter is minrel
BudgetEnter ==
  /\ pc = "idle"
  /\ \E m \in 0..MaxMinRel :
       loc' = [op |-> "branch", minrel |-> m, minreliable |-> m, degeneracy |-> 1,
               sbmaxiters |-> 0, passes |-> 0, trials |-> 0, last |-> "enter",
               lowest |-> m]
  /\ pc' = "budget"
  /\ UNCHANGED <<budgetrest, stats>>

\* lines 1012-1033: a pass of the loop up to the call of
\* selectBranchingCandidate(sbmaxiters)
BudgetPass ==
  /\ pc = "budget"
  /\ loc.passes < MaxPasses
  /\ \E degeneracyFac \in {1, 10} :
       LET sbiters == GetStrongBranchingLpIterations(1)
           sbmaxiters == IF loc.minrel > 0
                         THEN SbMaxIters(GetTotalLpIterations(1),
                                         GetHeuristicLpIterations(1), sbiters)
                         ELSE 0
           minreliable == IF loc.minrel > 0
                          THEN BudgetMinReliable(loc.minrel, loc.minreliable,
                                                 sbiters, sbmaxiters)
                          ELSE loc.minreliable
           set == IF degeneracyFac >= 10 THEN 0 ELSE minreliable
       IN loc' = [loc EXCEPT !.sbmaxiters = sbmaxiters,
                             !.minreliable = set,
                             !.degeneracy = degeneracyFac,
                             !.lowest = IF set < @ THEN set ELSE @,
                             !.passes = @ + 1, !.last = "pass"]
  /\ pc' = "select"
  /\ UNCHANGED <<budgetrest, stats>>

\* line 348-349: mustStop
MustStop(limits) == GetStrongBranchingLpIterations(1) >= loc.sbmaxiters \/ limits

\* a faulty exit: a parameter that was set to 0 is left at 0
BranchRestoreUnlessZero(l) ==
  [l EXCEPT !.minreliable = IF @ = 0 THEN 0 ELSE l.minrel, !.degeneracy = 1]
\* lines 1197-1198: after the loop the pseudocost settings are set back
BranchRestore(l) == [l EXCEPT !.minreliable = l.minrel, !.degeneracy = 1]

\* lines 351-360, 1034-1189 and 1195-1313: a candidate is returned, reliable
\* or not when the loop must stop; branch leaves the loop, sets the
\* pseudocost settings back and returns kBranched
BudgetReturn ==
  /\ pc = "select"
  /\ \E limits \in BOOLEAN, reliable \in BOOLEAN :
       MustStop(limits) \/ reliable
  /\ loc' = [BranchRestore(loc) EXCEPT !.last = "kBranched"]
  /\ pc' = "done"
  /\ UNCHANGED <<budgetrest, stats>>

\* lines 1009-1011, 1195-1202 and 1204-1313: the condition of the loop does
\* not hold, at the first test or after a one-sided commit; branch sets the
\* pseudocost settings back and returns the result of the evaluation of a
\* closed node, the fallback branch, or the result of the fallback ladder
BranchExits == {"closed", "fallback branch", "fallback ladder"}
BudgetLoopExit ==
  /\ pc = "budget"
  /\ \E exit \in BranchExits : loc' = [BranchRestore(loc) EXCEPT !.last = exit]
  /\ pc' = "done"
  /\ UNCHANGED <<budgetrest, stats>>

\* lines 406-411 and 561-566: a trial LP is solved and its iterations counted
TrialCounted(numiters) ==
  [stats EXCEPT !.local[1][3] = @ + numiters, !.local[1][5] = @ + numiters]

\* a trial LP after which probing goes on
BudgetTrial ==
  /\ pc = "select"
  /\ ~MustStop(FALSE)
  /\ loc.trials < MaxTrials
  /\ \E numiters \in TrialIters : stats' = TrialCounted(numiters)
  /\ loc' = [loc EXCEPT !.trials = @ + 1, !.last = "trial"]
  /\ UNCHANGED <<budgetrest, pc>>

\* a trial LP after which the opposite branch is committed; evaluateNode
\* solves the LP of the child (lines 890-892, 1193) and leaves it open
BudgetTrialCommit ==
  /\ pc = "select"
  /\ ~MustStop(FALSE)
  /\ loc.trials < MaxTrials
  /\ \E numiters \in TrialIters, evaliters \in EvalIters :
       stats' = [TrialCounted(numiters) EXCEPT !.local[1][3] = @ + evaliters]
  /\ loc' = [loc EXCEPT !.trials = @ + 1, !.last = "commit"]
  /\ pc' = "budget"
  /\ UNCHANGED budgetrest

NextBudget ==
  \/ BudgetEnter
  \/ BudgetPass
  \/ BudgetReturn
  \/ BudgetLoopExit
  \/ BudgetTrial
  \/ BudgetTrialCommit

SpecBudget == InitBudget /\ [][NextBudget]_vars

\* ---------------------------------------------------- setRENSNeighbourhood
\* lpsol and feastol are in quarters: a value within a quarter of an integer
\* is within the feasibility tolerance of it.  Bounds are in half units.
RensScale == 4
RensFeastol == 1

\* lines 110-111: std::floor(lpsol[i] + feastol) and std::ceil(lpsol[i] - feastol)
RensDownval(x) == 2 * ((x + RensFeastol) \div RensScale)
RensUpval(x) == 2 * (0 - ((RensFeastol - x) \div RensScale))

\* localdom.changeBound(chg, Reason::unspecified()): the change is pushed;
\* the domain may find a row infeasible under it
RensChangeBound(dom, chg) ==
  LET d == DomChangeBound(dom, chg, FALSE)
  IN {d} \cup (IF DomInfeasible(d) \/ ~propagating THEN {}
               ELSE {[d EXCEPT !.infpos = Len(dom.stack)]})

\* a faulty bound: the rounded value is not clamped to the upper bound
RensLowerUnclamped(dom, i, downval) == DomainChange(i, kLower, downval)
\* lines 114-116: the new lower bound of column i
RensLower(dom, i, downval) ==
  DomainChange(i, kLower, SetMin({downval, ColUpper(dom.stack, i)}))
\* lines 120-122: the new upper bound of column i
RensUpper(dom, i, upval) ==
  DomainChange(i, kUpper, Max2(upval, ColLower(dom.stack, i)))

\* lines 106-125: the loop over the columns from column i on, as the set of
\* domains it can leave; done is TRUE when it returned from inside the loop
RECURSIVE RensLoop(_, _, _)
RensLoop(dom, lpsol, i) ==
  IF i \notin Cols THEN {[dom |-> dom, returned |-> FALSE]}
  ELSE IF i \notin integral_cols THEN RensLoop(dom, lpsol, i + 1)
  ELSE IF ColLower(dom.stack, i) = ColUpper(dom.stack, i) THEN RensLoop(dom, lpsol, i + 1)
  ELSE LET downval == RensDownval(lpsol[i])
           upval == RensUpval(lpsol[i])
           raised == IF ColLower(dom.stack, i) < downval
                     THEN RensChangeBound(dom, RensLower(dom, i, downval))
                     ELSE {dom}
       IN UNION {IF d1 # dom /\ DomInfeasible(d1)
                 THEN {[dom |-> d1, returned |-> TRUE]}
                 ELSE UNION {IF d2 # d1 /\ DomInfeasible(d2)
                             THEN {[dom |-> d2, returned |-> TRUE]}
                             ELSE RensLoop(d2, lpsol, i + 1) :
                             d2 \in (IF ColUpper(d1.stack, i) > upval
                                     THEN RensChangeBound(d1, RensUpper(d1, i, upval))
                                     ELSE {d1})} :
                 d1 \in raised}

\* the LP solutions a RENS neighbourhood is built from: each column at an
\* integer, within the tolerance of one, or half way between two, inside
\* its global bounds or just outside
RensPoints(c) ==
  {x \in (2 * GlobalLower(c) - 2)..(2 * GlobalUpper(c) + 2) : x % 4 # 3 /\ (c \in integral_cols \/ x = 2)}
RensSolutions ==
  {s \in [Cols -> UNION {RensPoints(c) : c \in Cols}] : \A c \in Cols : s[c] \in RensPoints(c)}

\* setRENSNeighbourhood(lpsol), lines 105-126, called once by a heuristic
\* on its open root node, before or after the root is evaluated, with the
\* local domain feasible
SetRENSNeighbourhood ==
  /\ pc = "idle"
  /\ Calls("setRENSNeighbourhood")
  /\ Len(nodestack) = 1
  /\ Top.opensubtrees = 2
  /\ hist.ret.op \in {"createNewNode", "evaluateNode"}
  /\ ~DomInfeasible(LocalDom)
  /\ \E lpsol \in RensSolutions :
       \E r \in RensLoop(LocalDom, lpsol, 1) :
         /\ domchgstack' = r.dom.stack
         /\ infeasible_pos' = r.dom.infpos
         /\ Return("setRENSNeighbourhood", "void", [Step EXCEPT !.lpsol = lpsol])
  /\ UNCHANGED <<nodestack, depthoffset, treeweight, pruned_treeweight, upper_limit,
                 lpstate, nodequeue, symmetries, integral_cols, caller, propagating,
                 stats>>

\* a RENS heuristic on its root node: the neighbourhood is set and the root
\* evaluated
RensProblems ==
  {[integral_cols |-> I, symmetries |-> NoSymmetries, propagating |-> TRUE] :
     I \in {{1, 2}, {2}}}
RensUsers == {u \in Users : u.caller = "heuristic" /\ u.upper_limit = HighsInf}
InitRens == InitOn(RensProblems, RensUsers)

NextRens ==
  \/ CreateNewNode
  \/ SetRENSNeighbourhood
  \/ EvaluateNode
  \/ Backtrack

SpecRens == InitRens /\ [][NextRens]_vars

\* ------------------------------------------- callhighs (interfaces/MinimalAPI.cpp)
\* loc holds the arguments of callhighs and its local lp.  The arrays of the
\* caller are sequences: element i of the C array is element i + 1 here.
MaxDim == 2        \* most columns and most rows of the caller's model
MaxNz == 2         \* most nonzeros of the caller's matrix
CallValues == {0, 1}

\* the matrix starts of numcol columns: astart[0] = 0, not decreasing
CallStarts(numcol) ==
  {s \in [1..numcol + 1 -> 0..MaxNz] :
     s[1] = 0 /\ \A i \in 1..numcol : s[i] <= s[i + 1]}

\* what a caller passes: arrays of the sizes the interface asks for
CallArguments ==
  UNION {UNION {{[op |-> "callhighs", numcol |-> nc, numrow |-> nr,
                  colcost |-> [i \in 1..nc |-> i],
                  collower |-> [i \in 1..nc |-> 0],
                  colupper |-> [i \in 1..nc |-> 1],
                  rowlower |-> rl, rowupper |-> ru, astart |-> as,
                  aindex |-> ai,
                  avalue |-> [k \in 1..as[nc + 1] |-> 1],
                  lp |-> Null, beyond |-> {}] :
                   rl \in [1..nr -> CallValues], ru \in [1..nr -> CallValues],
                   ai \in [1..as[nc + 1] -> 0..nr - 1]} :
                as \in CallStarts(nc)} :
         nc \in 0..MaxDim, nr \in 0..MaxDim}

\* the process died on a read outside the caller's memory
Fault == [fault |-> TRUE]

\* std::vector::assign(first, first + n) on the caller's array arr: n
\* elements are read from first on.  A read beyond the array is undefined:
\* it yields whatever lies behind the array, or the process dies.
VectorAssign(arr, n) ==
  IF n <= Len(arr) THEN {[fault |-> FALSE, vec |-> SubSeq(arr, 1, n)]}
  ELSE {[fault |-> FALSE, vec |-> arr \o junk] : junk \in [1..n - Len(arr) -> CallValues]}
       \cup {[fault |-> TRUE, vec |-> <<>>]}

\* line 36: the number of elements of rowupper that are copied
RowUpperCount(a) == a.numcol

\* lines 15-39: the LP that callhighs builds from its arguments a, as the
\* set of outcomes
BuildLp(a) ==
  LET local_numNz == a.astart[a.numcol + 1]
  IN {[a EXCEPT !.lp = IF ru.fault THEN Fault
                       ELSE [numCol_ |-> a.numcol, numRow_ |-> a.numrow, numInt_ |-> 0,
                             colCost_ |-> SubSeq(a.colcost, 1, a.numcol),
                             colLower_ |-> SubSeq(a.collower, 1, a.numcol),
                             colUpper_ |-> SubSeq(a.colupper, 1, a.numcol),
                             rowLower_ |-> SubSeq(a.rowlower, 1, a.numrow),
                             rowUpper_ |-> ru.vec,
                             Astart_ |-> SubSeq(a.astart, 1, a.numcol + 1),
                             Aindex_ |-> SubSeq(a.aindex, 1, local_numNz),
                             Avalue_ |-> SubSeq(a.avalue, 1, local_numNz)],
                 !.beyond = IF RowUpperCount(a) > Len(a.rowupper)
                            THEN {"rowupper"} ELSE {}] :
        ru \in VectorAssign(a.rowupper, RowUpperCount(a))}

\* callhighs(...), lines 3-48: the LP is built and handed to the solver
Callhighs ==
  /\ pc = "callhighs"
  /\ \E a \in BuildLp(loc) : loc' = a
  /\ pc' = IF loc'.lp = Fault THEN "fault" ELSE "run"
  /\ UNCHANGED <<nodestack, domchgstack, infeasible_pos, depthoffset, treeweight,
                 pruned_treeweight, upper_limit, lpstate, nodequeue, symmetries,
                 integral_cols, propagating, caller, hist, stats, run>>

\* lines 43-46: highs.initializeLp(lp) and highs.run() return
HighsRun ==
  /\ pc = "run"
  /\ pc' = "done"
  /\ UNCHANGED <<nodestack, domchgstack, infeasible_pos, depthoffset, treeweight,
                 pruned_treeweight, upper_limit, lpstate, nodequeue, symmetries,
                 integral_cols, propagating, caller, loc, hist, stats, run>>

\* a program that calls callhighs; no search is set up by it
InitCall ==
  /\ nodestack = <<>>
  /\ domchgstack = <<>>
  /\ infeasible_pos = -1
  /\ depthoffset = 0
  /\ treeweight = 0
  /\ pruned_treeweight = 0
  /\ upper_limit = HighsInf
  /\ lpstate = NoLp
  /\ nodequeue = <<>>
  /\ symmetries = NoSymmetries
  /\ integral_cols = {}
  /\ propagating = FALSE
  /\ caller = "callhighs"
  /\ pc = "callhighs"
  /\ loc \in CallArguments
  /\ hist = NoHistory
  /\ stats = NoStats
  /\ run = NoRun

NextCall ==
  \/ Callhighs
  \/ HighsRun

SpecCall == InitCall /\ [][NextCall]_vars
\* ================================================================ claims
\* C1 (as claimed): a search started by createNewNode from a single root at
\* logical depth 0, in which no node is parked in or installed from the
\* queue and which only evaluates, branches and backtracks, has, once the
\* node stack is empty again, a local tree weight plus flushed pruned tree
\* weight of exactly 1 (WeightUnit) above the weight it started with.
C1_TreeWeightTotality ==
  (/\ caller = "depthfirst"
   /\ hist.pure
   /\ hist.rootoffset = 0
   /\ nodestack = <<>>)
  => treeweight + pruned_treeweight - hist.startweight = WeightUnit

\* sum of skipDepthCount over the frames of a node stack
RECURSIVE SkipSum(_)
SkipSum(stk) ==
  IF stk = <<>> THEN 0 ELSE TopOf(stk).skipDepthCount + SkipSum(Pop(stk))

\* C2: in every state depthoffset equals its value at the installation of
\* the root frame minus the sum of skipDepthCount over the frames on the
\* node stack; with the stack empty it is the installation value.
C2_DepthAccounting == depthoffset = hist.rootoffset - SkipSum(nodestack)

\* a one-sided commit lies below a frame that backtrack has just pushed
C2_Witness ==
  /\ hist.ret = Ret("backtrack", "true")
  /\ nodestack[1].skipDepthCount = SkipDepthOfCommit
  /\ depthoffset = hist.rootoffset - 1

\* the sibling of a first decision: v + 1 as lower bound after the upper
\* bound v, v - 1 as upper bound after the lower bound v (half units)
SiblingOfFirst(dec) ==
  IF dec.boundtype = kUpper
  THEN DomainChange(dec.column, kLower, dec.boundval + 2)
  ELSE DomainChange(dec.column, kUpper, dec.boundval - 2)

\* C3: a frame that was flipped to its sibling lies below the frame pushed
\* for the sibling; its first decision was on an integral value v, its
\* decision now is the lower bound v + 1 after a down branch and the upper
\* bound v - 1 after an up branch, on the same column, and the frame above
\* it starts at that bound change of the domain-change stack.
C3_BranchFlip ==
  \A i \in DOMAIN nodestack :
    nodestack[i].flipped =>
      /\ i < Len(nodestack)
      /\ nodestack[i].first.boundval % 2 = 0
      /\ nodestack[i].branchingdecision = SiblingOfFirst(nodestack[i].first)
      /\ LET pos == nodestack[i + 1].domgchgStackPos
         IN /\ pos + 1 \in DOMAIN domchgstack
            /\ domchgstack[pos + 1] = StackEntry(nodestack[i].branchingdecision, TRUE)

\* backtrack has flipped a down branch of the heuristic on the general column
C3_Witness ==
  /\ caller = "heuristic"
  /\ hist.ret = Ret("backtrack", "true")
  /\ Parent.flipped
  /\ Parent.first.boundtype = kUpper
  /\ Parent.first.column = 2

\* opensubtrees is 0, 1 or 2 and only the top frame has 2
C4_Frames(stk) ==
  /\ \A i \in DOMAIN stk : stk[i].opensubtrees \in {0, 1, 2}
  /\ \A i \in 1..(Len(stk) - 1) : stk[i].opensubtrees # 2

\* a step of the driver: kept is the number of frames that stay on the stack
C4_Step ==
  LET kept == Len(nodestack') - hist'.pushed
  IN /\ C4_Frames(nodestack')
     /\ kept <= Len(nodestack)
     /\ hist'.pushed = 1 => nodestack'[Len(nodestack')].opensubtrees = 2
     /\ \A i \in 1..kept :
          LET old == nodestack[i]
              new == nodestack'[i]
              parent == i = kept /\ hist'.pushed = 1
          IN /\ new.opensubtrees <= old.opensubtrees
             /\ (new.opensubtrees = 1 /\ old.opensubtrees # 1)
                  => (old.opensubtrees = 2 /\ parent)
             /\ parent => \/ old.opensubtrees = 2
                          \/ /\ old.opensubtrees = 1
                             /\ new.opensubtrees = 0
                             /\ ~old.flipped
                             /\ new.flipped
             /\ old.flipped => /\ new.flipped
                               /\ new.branchingdecision = old.branchingdecision

\* C4: in every step every frame's opensubtrees is in {0, 1, 2} and only the
\* top frame has 2; a pushed frame has 2; the opensubtrees of a frame that
\* stays never increases and becomes 1 only from 2 when a child is pushed on
\* it; a child is pushed on a frame only when it has 2, or when it has 1 and
\* is flipped for the first time, which leaves it with 0.
C4_OpenSubtrees == [][C4_Step]_vars

\* a flipped frame with its second child above a frame with one child left
C4_Witness ==
  /\ Len(nodestack) = 3
  /\ nodestack[1].opensubtrees = 1
  /\ nodestack[2].flipped
  /\ nodestack[2].opensubtrees = 0
  /\ nodestack[3].opensubtrees = 2

\* C5 (as claimed): in every state the domgchgStackPos of every frame is an
\* index of the domain-change stack at which the changes of the frame begin,
\* for a branched child the index of its branching change, and the positions
\* do not decrease along the node stack.
C5_StackPositions ==
  \A i \in DOMAIN nodestack :
    LET pos == nodestack[i].domgchgStackPos
    IN /\ pos >= 0
       /\ pos <= Len(domchgstack)
       /\ i > 1 => /\ nodestack[i - 1].domgchgStackPos <= pos
                   /\ pos < Len(domchgstack)
                   /\ domchgstack[pos + 1] =
                        StackEntry(nodestack[i - 1].branchingdecision, TRUE)

\* the node that currentNodeToQueue emplaces holds the bounds and the
\* logical depth of the current node
C6_Queued(n) ==
  /\ n.by = "currentNodeToQueue"
  /\ n.lower_bound = Top.lower_bound
  /\ n.estimate = Top.estimate
  /\ n.depth - 1 = Len(nodestack) - 1 + depthoffset
  /\ \E k \in DOMAIN nodequeue' : nodequeue'[k] = n

\* installNode seats the node n as the single frame
C6_Installed(n) ==
  /\ \E k \in DOMAIN nodequeue : nodequeue[k] = n
  /\ Len(nodestack') = 1
  /\ nodestack'[1].lower_bound = n.lower_bound
  /\ nodestack'[1].estimate = n.estimate
  /\ nodestack'[1].opensubtrees = 2
  /\ Len(nodestack') - 1 + depthoffset' = n.depth - 1
  /\ infeasible_pos' = -1
  /\ GetReducedDomainChangeStack(domchgstack') =
       [domchgstack |-> n.domchgstack, branchings |-> n.branchings]

C6_Step ==
  /\ hist'.ret.op = "currentNodeToQueue"
       => \A k \in DOMAIN hist'.queued : C6_Queued(hist'.queued[k])
  /\ (hist'.ret.op = "installNode" /\ hist'.installed.by = "currentNodeToQueue")
       => C6_Installed(hist'.installed)

C7_OrbitInheritance ==
  (hist.pushed = 1 /\ HasParent)
  => Top.stabilizerOrbits =
       IF OrbitsValidInChildNode(Parent, Parent.branchingdecision)
       THEN Parent.stabilizerOrbits ELSE Null

\* backtrack pushed the sibling without the parent's non-trivial stabilizer
C7_Witness ==
  /\ hist.ret = Ret("backtrack", "true")
  /\ Parent.stabilizerOrbits # Null
  /\ Parent.stabilizerOrbits.orbitCols # {}
  /\ Top.stabilizerOrbits = Null

\* a child was pushed on a parent that holds a stabilizer, by a branching on
\* a global-binary column tracked by the symmetries
C8_Case ==
  /\ hist.pushed = 1
  /\ HasParent
  /\ Parent.stabilizerOrbits # Null
  /\ IsGlobalBinary(Parent.branchingdecision.column)
  /\ Parent.branchingdecision.column \in symmetries.tracked

\* C8 (as claimed): the child of a down branch holds the parent's stabilizer,
\* the child of an up branch holds none.
C8_Original ==
  C8_Case => Top.stabilizerOrbits =
               IF Parent.branchingdecision.boundtype = kUpper
               THEN Parent.stabilizerOrbits ELSE Null

\* C8 (amended): the child of a down branch holds the parent's stabilizer;
\* the child of an up branch holds none when the parent's stabilizer has
\* orbit columns and does not stabilize the column, and the parent's
\* stabilizer otherwise.
C8_ByDirection ==
  C8_Case => Top.stabilizerOrbits =
               IF Parent.branchingdecision.boundtype = kUpper
               THEN Parent.stabilizerOrbits
               ELSE IF \/ Parent.stabilizerOrbits.orbitCols = {}
                       \/ IsStabilized(Parent.stabilizerOrbits,
                                       Parent.branchingdecision.column)
               THEN Parent.stabilizerOrbits
               ELSE Null

\* an up branch dropped a stabilizer with orbit columns
C8_Witness ==
  /\ C8_Case
  /\ Parent.branchingdecision.boundtype = kLower
  /\ Parent.stabilizerOrbits.orbitCols # {}
  /\ Top.stabilizerOrbits = Null

\* the branching domain changes of a node of the queue
C9_Branchings(node) == {node.domchgstack[i + 1] : i \in node.branchings}

\* every branching change is on a tracked column and sets a binary column to
\* 1 by a lower bound or is on a non-binary column
C9_ClaimedCondition(node) ==
  \A chg \in C9_Branchings(node) :
    /\ chg.column \in symmetries.tracked
    /\ \/ ~IsGlobalBinary(chg.column)
       \/ (chg.boundtype = kLower /\ chg.boundval = 2)

\* C9 (as claimed): installNode seats the global orbits when the claimed
\* condition holds and a null stabilizer in every other case.
C9_Original ==
  hist.ret.op = "installNode"
  => Top.stabilizerOrbits = IF C9_ClaimedCondition(hist.installed)
                            THEN symmetries.globalOrbits ELSE Null

\* no branching change is on a tracked column that is non-binary or is set
\* to 1 by a lower bound
C9_KeptCondition(node) ==
  \A chg \in C9_Branchings(node) :
    \/ chg.column \notin symmetries.tracked
    \/ /\ IsGlobalBinary(chg.column)
       /\ ~(chg.boundtype = kLower /\ chg.boundval = 2)

\* C9 (amended): installNode seats the global orbits on the new frame when
\* every branching change of the node is on an untracked column or is a
\* change of a binary column other than the lower bound 1, and a null
\* stabilizer in every other case.
C9_InstallOrbits ==
  hist.ret.op = "installNode"
  => Top.stabilizerOrbits = IF C9_KeptCondition(hist.installed)
                            THEN symmetries.globalOrbits ELSE Null

\* a node with a branching was installed with the global orbits
C9_Witness ==
  /\ hist.ret.op = "installNode"
  /\ hist.installed.branchings # {}
  /\ Top.stabilizerOrbits # Null

\* the step of selectBranchingCandidate that found a trial bound infeasible
\* by propagation: obs is the observation made, parent the former top frame
C10_Step ==
  hist'.sbexit = "propinf" =>
    /\ Len(hist'.cutoffobs) = 1
    /\ Len(nodestack') = Len(nodestack) + 1
    /\ LET col == hist'.cutoffobs[1][1]
           up == hist'.cutoffobs[1][2]
           parent == nodestack'[Len(nodestack)]
           point == parent.branching_point
           committed == DomainChange(col, IF up THEN kUpper ELSE kLower,
                                     IF up THEN Floor(point) ELSE Ceil(point))
       IN /\ <<col, point>> \in lpstate.fracints
          /\ <<col, point>> \notin (IF up THEN loc.sb.uprel ELSE loc.sb.downrel)
          /\ domchgstack' = Append(domchgstack, StackEntry(committed, TRUE))
          /\ parent.branchingdecision = committed
          /\ parent.opensubtrees = 0
          /\ parent.skipDepthCount = 1
          /\ nodestack'[Len(nodestack')].opensubtrees = 2
          /\ nodestack'[Len(nodestack')].domgchgStackPos = Len(domchgstack)
          /\ \A i \in 1..(Len(nodestack) - 1) : nodestack'[i] = nodestack[i]
          /\ depthoffset' = depthoffset - 1
          /\ hist'.ret = Ret("selectBranchingCandidate", "-1")

\* C10: when the trial bound of a candidate's unreliable side propagates to
\* infeasibility, the step records exactly one cutoff observation for that
\* column and direction, leaves the domain-change stack as it was plus the
\* opposite bound, pushes exactly one child frame, leaves the former top
\* frame with opensubtrees = 0 and skipDepthCount = 1, lowers depthoffset by
\* one and returns -1.
C10_InfeasibleSide == [][C10_Step]_vars

\* the commit has happened and the child waits for its evaluation
C10_Witness ==
  /\ hist.sbexit = "propinf"
  /\ pc = "eval"
  /\ Parent.skipDepthCount = SkipDepthOfCommit
  /\ Top.opensubtrees = 2

\* the flips of the last call of backtrackPlunge whose sibling was scored
C11_Scored ==
  {i \in DOMAIN hist.flips : hist.flips[i].fate \in {"parked", "pushed"}}
C11_Exceeds(e, a) == e.scores.ancestors[a].inactive > e.scores.node

\* C11: in backtrackPlunge a flipped sibling that is not pruned is parked
\* whenever some still open ancestor has an inactive-direction score that
\* exceeds the sibling's score by more than feastol, whichever open ancestor
\* that is.
C11_Original ==
  \A i \in C11_Scored :
    LET e == hist.flips[i]
    IN (\E a \in DOMAIN e.scores.ancestors : C11_Exceeds(e, a)) => e.fate = "parked"

\* C11, as the code has it: the sibling is parked exactly when there is a
\* still open ancestor and, for the nearest one, the score of the inactive
\* direction minus the score of the active direction exceeds the sibling's
\* score by more than feastol; the scores of farther ancestors do not count.
C11_NearestAncestor ==
  \A i \in C11_Scored :
    LET e == hist.flips[i]
        open == DOMAIN e.scores.ancestors
    IN e.fate = "parked" <=>
         /\ open # {}
         /\ LET a == e.scores.ancestors[SetMax(open)]
            IN a.inactive - a.active > e.scores.node

\* a sibling was descended although a farther open ancestor's inactive score
\* exceeds its score, because the nearest open ancestor's score does not
C11_Witness ==
  \E i \in C11_Scored :
    LET e == hist.flips[i]
        open == DOMAIN e.scores.ancestors
    IN /\ Cardinality(open) >= 2
       /\ e.fate = "pushed"
       /\ \E a \in open : a # SetMax(open) /\ C11_Exceeds(e, a)
       /\ ~C11_Exceeds(e, SetMax(open))

\* the flips of the last call of backtrackPlunge that parked the sibling
C12_Parked == {i \in DOMAIN hist.flips : hist.flips[i].fate = "parked"}

\* C12: the node that backtrackPlunge emplaces for a parked sibling has a
\* reduced domain-change stack whose last entry is the flipped branching
\* decision, marked as a branching position, and a depth one below the
\* parent's logical depth.
C12_ParkedNode ==
  \A i \in C12_Parked :
    LET e == hist.flips[i]
        node == e.nodes[1]
        last == Len(node.domchgstack)
    IN /\ Len(e.nodes) = 1
       /\ last >= 1
       /\ node.domchgstack[last] = e.decision
       /\ (last - 1) \in node.branchings
       /\ node.depth - 1 = e.depth + 1

\* the depth of the parked node alone
C12_ParkedDepth ==
  \A i \in C12_Parked :
    LET e == hist.flips[i]
    IN Len(e.nodes) = 1 /\ e.nodes[1].depth - 1 = e.depth + 1

\* a step in which backtrackPlunge unwound a non-empty stack
C13_Step ==
  (hist'.ret.op = "backtrackPlunge" /\ nodestack # <<>>) =>
    LET flips == hist'.flips
        parked == {i \in DOMAIN flips : flips[i].fate = "parked"}
        pruned == {i \in DOMAIN flips : flips[i].fate = "pruned"}
        n == Len(flips)
    IN /\ \A i \in parked :
            /\ Len(flips[i].nodes) = 1
            /\ flips[i].parent = 0
            /\ flips[i].frames = 0
            /\ flips[i].weight = 0
            /\ i < n \/ nodestack' = <<>>
       /\ Len(nodequeue') = Len(nodequeue) + Cardinality(parked)
       /\ \A i \in pruned : flips[i].weight = 2 ^ (DepthCap - (flips[i].depth + 1))
       /\ hist'.ret.val = "false" <=> nodestack' = <<>>
       /\ hist'.ret.val = "true" <=>
            /\ n >= 1
            /\ flips[n].fate = "pushed"
            /\ flips[n].frames = 1
            /\ nodestack' # <<>>
            /\ nodestack'[Len(nodestack')].opensubtrees = 2

\* C13: each time backtrackPlunge parks a sibling it emplaces exactly one
\* queue node, leaves the parent frame closed, pushes no child, adds no tree
\* weight and goes on unwinding; it returns false exactly when the stack ran
\* empty and true exactly when its last flip pushed a sibling it did not park.
C13_ParkAndUnwind == [][C13_Step]_vars

\* backtrackPlunge parked a sibling, unwound further and pushed the sibling
\* of an ancestor
C13_Witness ==
  /\ hist.ret = Ret("backtrackPlunge", "true")
  /\ Len(hist.flips) >= 2
  /\ hist.flips[1].fate = "parked"
  /\ hist.flips[Len(hist.flips)].fate = "pushed"

\* getCurrentDepth() at the time frame i of the node stack is the top frame
C14_DepthOf(i) ==
  i + depthoffset + SkipSum(nodestack) - SkipSum(SubSeq(nodestack, 1, i))

\* the weight of the subtrees that are open on the node stack: the node of a
\* frame with both subtrees open, the sibling of a frame with one
RECURSIVE C14_OpenWeight(_)
C14_OpenWeight(i) ==
  IF i = 0 THEN 0
  ELSE C14_OpenWeight(i - 1)
       + (CASE nodestack[i].opensubtrees = 2 -> Pow05(C14_DepthOf(i) - 1)
            [] nodestack[i].opensubtrees = 1 -> Pow05(C14_DepthOf(i))
            [] OTHER -> 0)

\* the weight of the nodes of a sequence of queue nodes
RECURSIVE C14_NodeWeight(_)
C14_NodeWeight(nodes) ==
  IF nodes = <<>> THEN 0
  ELSE Pow05(nodes[Len(nodes)].depth - 1) + C14_NodeWeight(SubSeq(nodes, 1, Len(nodes) - 1))

C14_Step ==
  hist'.ret.op = "openNodesToQueue" =>
    /\ nodestack' = <<>>
    /\ domchgstack' = <<>>
    /\ infeasible_pos' = -1
    /\ nodequeue' = nodequeue \o hist'.queued
    /\ C14_OpenWeight(Len(nodestack))
         = (treeweight' - treeweight) + C14_NodeWeight(hist'.queued)

\* C14: openNodesToQueue on a non-empty stack ends with the node stack empty
\* and the local domain at the global domain, and the subtrees that were open
\* on entry are all accounted for once: the weight of the emplaced nodes plus
\* the tree weight added for pruned ones is the weight that was open.
C14_OpenNodesAccounted == [][C14_Step]_vars

\* openNodesToQueue emplaced two nodes and pruned nothing
C14_Witness ==
  /\ hist.ret.op = "openNodesToQueue"
  /\ Len(hist.queued) >= 2
  /\ nodestack = <<>>

\* a step of flushStatistics of a driver that has the MIP-wide data to itself
C15_Step ==
  (Drivers = {1} /\ stats'.at[1] # stats.at[1]) =>
    /\ GetTotalLpIterations(1)' = GetTotalLpIterations(1)
    /\ GetHeuristicLpIterations(1)' = GetHeuristicLpIterations(1)
    /\ GetStrongBranchingLpIterations(1)' = GetStrongBranchingLpIterations(1)
    /\ \A k \in DOMAIN Counters : Getter(1, k)' = Getter(1, k)
    /\ stats'.at[1] = 0 =>
         \A k \in DOMAIN Counters :
           /\ stats'.local[1][k] = 0
           /\ stats'.global[k] = stats'.before[1].global[k] + stats'.before[1].local[k]

\* C15: flushStatistics adds every local counter to its MIP-wide counterpart
\* and resets the local one, so that a read path returns the same value
\* before, during and after the flush; a flush that finds the local counters
\* at zero leaves the MIP-wide counters as they are.
C15_FlushConserves == [][C15_Step]_vars

\* a flush moved LP iterations to the MIP-wide counter, and a second flush
\* without work in between has ended
C15_Witness ==
  /\ Drivers = {1}
  /\ stats.at[1] = 0
  /\ stats.global[3] > 0
  /\ stats.before[1].global[3] > 0
  /\ stats.before[1].local = NoCounts
  /\ stats.global = stats.before[1].global

\* C16: when the drivers that share the MIP-wide data have all left
\* flushStatistics with their local counters at zero, every MIP-wide counter
\* holds all the work that was counted, however their flushes interleaved.
C16_NoLostUpdate ==
  (Drivers = {1, 2} /\ \A d \in Drivers : stats.at[d] = 0 /\ stats.local[d] = NoCounts)
    => stats.global = stats.worked

\* a step in which evaluateNode was called on the current node and returned
C17_Step ==
  hist'.ret.op = "evaluateNode" =>
    LET n == Len(nodestack)
        rejected == hist'.ret.val # "kOpen"
    IN /\ Len(nodestack') = n
       /\ \A i \in 1..(n - 1) : nodestack'[i] = nodestack[i]
       /\ rejected <=> nodestack'[n].opensubtrees = 0
       /\ ~rejected => nodestack'[n].opensubtrees = nodestack[n].opensubtrees
       /\ treeweight' = treeweight + (IF rejected
                                      THEN 2 ^ (DepthCap - (n - 1 + depthoffset))
                                      ELSE 0)

\* C17: evaluateNode returns a result other than kOpen if and only if it has
\* set the current frame's opensubtrees to 0, and it has then added 2^(-depth)
\* of that frame to the tree weight exactly once, also when it called itself
\* again after reduced-cost fixing; when it returns kOpen the frame's
\* opensubtrees and the tree weight are unchanged.
C17_ClosesOnce == [][C17_Step]_vars

\* evaluateNode rejected a child after it had called itself again
C17_Witness ==
  /\ hist.ret.op = "evaluateNode"
  /\ hist.ret.val # "kOpen"
  /\ hist.reeval
  /\ Len(nodestack) >= 2
  /\ Top.opensubtrees = 0

\* ---------------------------------------------------------------- C18
\* a step on which solveDepthFirst returns to its caller
C18_Returns ==
  /\ run'.pos = "none"
  /\ run.pos # "none" \/ run'.calls > run.calls

\* C18: solveDepthFirst(n) makes at most n dives, none for n = 0.  It returns
\* only with its budget used up, after a backtrack that found the stack
\* empty, or from a dive that returned kOpen.  After the n-th dive, if that
\* dive did not return kOpen, backtrack is still called, and a return with the
\* budget used up after at least one dive is the return of a successful
\* backtrack.  When it returns after at least one dive with frames on the
\* stack, the top frame is open (opensubtrees = 2).
C18_Step ==
  /\ run'.dives <= run'.budget
  /\ run'.budget = 0 => run'.dives = 0 /\ run'.evals = 0
  /\ run'.dives = run.dives + 1 /\ run'.dived.result # "kOpen"
       => run'.pos = "backtrack"
  /\ C18_Returns =>
       /\ \/ run'.maxbacktracks = 0
          \/ hist'.ret = Ret("backtrack", "false") /\ nodestack' = <<>>
          \/ run'.dives = run.dives + 1 /\ run'.dived.result = "kOpen"
       /\ run'.dives >= 1 /\ run'.maxbacktracks = 0 /\ run'.dived.result # "kOpen"
            /\ nodestack' # <<>>
            => hist'.ret = Ret("backtrack", "true") /\ run'.dives = run'.budget
       /\ run'.dives >= 1 /\ nodestack' # <<>>
            => TopOf(nodestack').opensubtrees = 2
C18_SolveDepthFirst == [][C18_Step]_vars

\* solveDepthFirst(2) has returned after its second dive and the backtrack
\* that followed it, with a node on the stack
C18_Witness ==
  /\ run.pos = "none"
  /\ run.budget = 2
  /\ run.dives = 2
  /\ run.maxbacktracks = 0
  /\ hist.ret = Ret("backtrack", "true")
  /\ nodestack # <<>>
  /\ Top.opensubtrees = 2
\* ---------------------------------------------------------------- C19
\* the step is the return of a call that dive made itself
C19_DiveCalled(op) ==
  /\ pc = "idle" \/ op = "branch"
  /\ run.pos = op
  /\ pc' = "idle"
  /\ hist'.ret.op = op

\* the step on which dive returns result to solveDepthFirst
C19_DiveReturns(result) ==
  /\ run'.dives = run.dives + 1
  /\ run'.dived.result = result
  /\ run'.pos \in {"none", "backtrack"}

\* C19: dive calls evaluateNode and branch in turn.  Each evaluateNode call
\* that dive makes itself adds exactly one to nnodes and no other step
\* changes nnodes; checkLimits follows it.  If checkLimits is true, dive
\* returns the result of that evaluation without calling branch and without
\* touching the search; if not, a result other than kOpen is returned and
\* kOpen leads to branch.  A branch that returns kBranched leads to the next
\* evaluateNode, any other result of branch is returned.  Dive returns on no
\* other step.
C19_Step ==
  /\ IF C19_DiveCalled("evaluateNode")
     THEN /\ run'.nnodes = run.nnodes + 1
          /\ run'.pos = "checkLimits"
          /\ run'.last = hist'.ret.val
          /\ run'.dives = run.dives
     ELSE run'.nnodes = run.nnodes
  /\ run.pos = "checkLimits" =>
       /\ search' = search
       /\ IF run'.limit \/ run.last # "kOpen"
          THEN C19_DiveReturns(run.last)
          ELSE run'.pos = "branch" /\ run'.dives = run.dives
  /\ C19_DiveCalled("branch") =>
       IF hist'.ret.val = "kBranched"
       THEN run'.pos = "evaluateNode" /\ run'.dives = run.dives
       ELSE C19_DiveReturns(hist'.ret.val)
  /\ run'.dives # run.dives /\ run'.calls = run.calls =>
       \/ run.pos = "checkLimits"
       \/ C19_DiveCalled("branch") /\ hist'.ret.val # "kBranched"
C19_Dive == [][C19_Step]_vars

\* dive has evaluated a node, branched, evaluated the child as open, and a
\* limit made it return kOpen; two nodes are counted
C19_Witness ==
  /\ run.pos = "none"
  /\ run.limit
  /\ run.dived = [result |-> "kOpen", by |-> "checkLimits"]
  /\ run.nnodes = 2
  /\ Len(nodestack) = 2
  /\ Top.opensubtrees = 2
\* a step in which branch ran the fallback ladder
C20_Step ==
  (hist'.ret.op = "branch" /\ hist'.ladder # <<>>) =>
    LET t == hist'.ladder
        n == Len(t)
    IN /\ n <= 3
       /\ \A i \in 1..n : t[i].solver = <<"presolve", "primal simplex", "ipm">>[i]
       /\ \A i \in 1..(n - 1) : t[i].result = "kOpen"
       /\ IF t[n].result # "kOpen"
          THEN hist'.ret.val = t[n].result
          ELSE n = 3 /\ hist'.ret.val = "kLpInfeasible"
       /\ nodestack'[Len(nodestack')].opensubtrees = 0
       /\ \A c \in integral_cols : ColUpper(domchgstack', c) - ColLower(domchgstack', c) < 1

\* C20: when branch finds no column to branch on, it evaluates the node on
\* the fresh LP with presolve, then with primal simplex, then with the
\* interior point solver, stops at the first evaluation whose result is not
\* kOpen and returns that result; only when all three return kOpen it closes
\* the frame itself and returns kLpInfeasible; branch returns kBranched only
\* without the ladder.
C20_FallbackLadder == [][C20_Step]_vars

\* the primal simplex settled a node that the presolved LP left open
C20_Witness ==
  /\ hist.ret.op = "branch"
  /\ Len(hist.ladder) = 2
  /\ hist.ladder[2].result # "kOpen"
  /\ hist.ret.val = hist.ladder[2].result

\* ---------------------------------------------------------------- C21
\* C21: a call of evaluateNode, and a call of branch with the evaluations it
\* makes of the node it returns on, records at most one inference observation
\* and at most one objective observation for the branching that led to the
\* node, however often the node is evaluated.
C21_NoDoubleCounting ==
  hist.ret.op \in {"evaluateNode", "branch"} =>
    /\ Len(hist.infobs) <= 1
    /\ Len(hist.costobs) <= 1
\* ---------------------------------------------------------------- C22
\* the step commits the branch opposite to the probed side of the trial:
\* one child pushed with the opposite bound of the candidate, the parent
\* closed with skipDepthCount = 1, -1 returned
C22_Committed ==
  LET t == hist'.trial
      n == Len(nodestack)
  IN /\ hist'.ret = Ret("selectBranchingCandidate", "-1")
     /\ Len(nodestack') = n + 1
     /\ nodestack'[n].opensubtrees = 0
     /\ nodestack'[n].skipDepthCount = 1
     /\ nodestack'[n].branchingdecision =
          DomainChange(t.cand[1], Opposite(t.side),
                       IF t.side = kUpper THEN Ceil(t.cand[2]) ELSE Floor(t.cand[2]))
     /\ nodestack'[n + 1].opensubtrees = 2

C22_OriginalStep ==
  hist'.trial.status = "optimal" /\ hist'.trial.solobj > hist'.trial.cutoffbnd
    => C22_Committed
\* C22 as stated: whenever a trial LP is solved to optimality and its
\* objective exceeds the cutoff bound, the opposite branch is committed and
\* -1 returned.
C22_Original == [][C22_OriginalStep]_vars

C22_Step ==
  hist'.trial.status = "optimal" =>
    LET t == hist'.trial
        exceeds == t.solobj > t.cutoffbnd
    IN IF exceeds /\ (t.dual \/ t.infeas)
       THEN C22_Committed
       ELSE /\ hist'.ret.op = "none"
            /\ pc' = "sb"
            /\ nodestack' = nodestack
            /\ depthoffset' = depthoffset
            /\ domchgstack' = domchgstack
\* C22 amended: a trial LP solved to optimality whose objective exceeds the
\* cutoff bound commits the opposite branch (one child pushed, parent closed
\* with skipDepthCount = 1, -1 returned) when the LP is dual feasible, or
\* when it is not and the propagation of the bound-exceeding conflict makes
\* the domain infeasible; otherwise the trial bound is undone and probing
\* goes on.
C22_TrialCutoff == [][C22_Step]_vars

\* a trial LP that is not dual feasible exceeded the cutoff bound and the
\* conflict made the domain infeasible: the opposite branch is committed
C22_Witness ==
  /\ hist.trial.status = "optimal"
  /\ hist.trial.solobj > hist.trial.cutoffbnd
  /\ ~hist.trial.dual
  /\ hist.trial.infeas
  /\ hist.ret = Ret("selectBranchingCandidate", "-1")
  /\ hist.sbexit = "cutoff"
\* ---------------------------------------------------------------- C23
\* C23: while selectBranchingCandidate probes, between its trials and so
\* whenever it returns a candidate, the node stack, the depth offset and the
\* domain-change stack are those it was entered with: every trial bound and
\* what it propagated was undone.
C23_NoTrace ==
  pc = "sb" =>
    /\ nodestack = loc.sb.entry.stack
    /\ depthoffset = loc.sb.entry.off
    /\ domchgstack = loc.sb.entry.dom
    /\ infeasible_pos = -1

\* a trial whose bound propagated a further domain change was solved and
\* undone, and probing goes on
C23_Witness ==
  /\ pc = "sb"
  /\ hist.trial.status = "optimal"
  /\ hist.infobs # <<>>
  /\ hist.infobs[1][3] > 0
\* ---------------------------------------------------------------- C24
\* C24: branch never returns kOpen: it returns kBranched after pushing a
\* child of the frame it branched, or kDomainInfeasible, kLpInfeasible or
\* kBoundExceeding with the current frame closed (opensubtrees = 0).  So a
\* dive that returned kOpen returned it from evaluateNode because checkLimits
\* was true after it.
C24_OpenOnlyFromLimits ==
  /\ hist.ret.op = "branch" =>
       IF hist.ret.val = "kBranched"
       THEN /\ hist.pushed = 1
            /\ Len(nodestack) >= 2
            /\ Top.opensubtrees = 2
            /\ nodestack[Len(nodestack) - 1].opensubtrees = 1
       ELSE /\ hist.ret.val \in {"kDomainInfeasible", "kLpInfeasible", "kBoundExceeding"}
            /\ nodestack # <<>>
            /\ Top.opensubtrees = 0
  /\ run.dived.result = "kOpen" =>
       /\ run.dived.by = "checkLimits"
       /\ run.limit
       /\ run.last = "kOpen"

\* branch returned a closed result from its fallback ladder inside a dive
C24_Witness ==
  /\ hist.ret.op = "branch"
  /\ hist.ret.val # "kBranched"
  /\ hist.ladder # <<>>
  /\ run.dived = [result |-> hist.ret.val, by |-> "branch"]
\* ---------------------------------------------------------------- C25
\* the inference observations of the step are for the column and the
\* direction of the branch tried
C25_Observed(col, up) ==
  /\ hist.infobs # <<>>
  /\ \A i \in DOMAIN hist.infobs :
       hist.infobs[i][1] = col /\ hist.infobs[i][2] = up

\* a strong-branching trial was made
C25_Trial == hist.trial.status # "none"
\* evaluateNode was called on a child
C25_Child == hist.ret.op = "evaluateNode" /\ Len(nodestack) > 1

C25_TrialObserved ==
  C25_Trial => C25_Observed(hist.trial.cand[1], hist.trial.side = kLower)
C25_ChildObserved ==
  C25_Child =>
    C25_Observed(nodestack[Len(nodestack) - 1].branchingdecision.column,
                 nodestack[Len(nodestack) - 1].branchingdecision.boundtype = kLower)

\* C25 as stated: every strong-branching trial bound, feasible or not, and
\* every child that evaluateNode evaluates records an inference observation
\* for its column and direction.
C25_Original == C25_TrialObserved /\ C25_ChildObserved

\* C25 amended: every child that evaluateNode evaluates, and every
\* strong-branching trial bound whose propagation leaves the domain feasible,
\* records an inference observation for its column and direction; a trial
\* bound that propagates to infeasibility records a cutoff observation and
\* no inference observation.
C25_Inferences ==
  /\ C25_ChildObserved
  /\ C25_Trial =>
       IF hist.trial.status = "propinf"
       THEN /\ hist.infobs = <<>>
            /\ hist.cutoffobs = <<<<hist.trial.cand[1], hist.trial.side = kLower>>>>
       ELSE /\ C25_Observed(hist.trial.cand[1], hist.trial.side = kLower)
            /\ Len(hist.infobs) = 1

\* a trial bound passed propagation and its trial LP was infeasible: the
\* inference observation was recorded before the LP was solved
C25_Witness ==
  /\ hist.trial.status = "lpinf"
  /\ Len(hist.infobs) = 1
  /\ hist.infobs[1][1] = hist.trial.cand[1]
\* ---------------------------------------------------------------- C26
\* the parent of the current node and the cutoff observation of its branching
C26_Parent == nodestack[Len(nodestack) - 1]
C26_ParentCutoff ==
  <<<<C26_Parent.branchingdecision.column,
      C26_Parent.branchingdecision.boundtype = kLower>>>>
C26_TrialCutoff == <<<<hist.trial.cand[1], hist.trial.side = kLower>>>>

\* a strong-branching trial found its side infeasible
C26_TrialInfeasible == hist.trial.status \in {"propinf", "lpinf"}
\* evaluateNode found a child infeasible
C26_ChildInfeasible ==
  /\ hist.ret.op = "evaluateNode"
  /\ hist.ret.val \in {"kDomainInfeasible", "kLpInfeasible"}
  /\ Len(nodestack) > 1

\* C26 as stated: every branch found infeasible, by a strong-branching trial
\* or by evaluateNode on a child, records exactly one cutoff observation for
\* its column and direction.
C26_Original ==
  /\ C26_TrialInfeasible => hist.cutoffobs = C26_TrialCutoff
  /\ C26_ChildInfeasible => hist.cutoffobs = C26_ParentCutoff

\* C26 amended: a strong-branching trial that finds its side infeasible
\* records exactly one cutoff observation for its column and direction;
\* evaluateNode finding a child infeasible records exactly one for the
\* parent's branching when the parent's LP objective is known and the
\* branching point differs from the branching bound value, and none
\* otherwise.
C26_Cutoffs ==
  /\ C26_TrialInfeasible => hist.cutoffobs = C26_TrialCutoff
  /\ C26_ChildInfeasible =>
       hist.cutoffobs =
         IF /\ C26_Parent.lp_objective # NegInf
            /\ C26_Parent.branching_point # C26_Parent.branchingdecision.boundval
         THEN C26_ParentCutoff ELSE <<>>

\* evaluateNode found the child of a branching on a fractional LP value
\* infeasible and recorded the cutoff
C26_Witness ==
  /\ C26_ChildInfeasible
  /\ C26_Parent.lp_objective # NegInf
  /\ C26_Parent.branching_point # C26_Parent.branchingdecision.boundval
  /\ hist.cutoffobs = C26_ParentCutoff
\* ---------------------------------------------------------------- C27
C27_Parent == nodestack[Len(nodestack) - 1]
C27_Fallback == C27_Parent.branching_point = C27_Parent.branchingdecision.boundval

\* C27: a call of evaluateNode records an objective observation or a cutoff
\* observation only if the node has a parent whose LP objective is known and
\* whose branching point differs from the branching bound value.  On the
\* child of a fallback branch (branching point equal to the bound value) it
\* records neither, and still records the inference observation for the
\* parent's column and direction.
C27_FallbackTeachesNoCost ==
  hist.ret.op = "evaluateNode" =>
    /\ hist.costobs # <<>> \/ hist.cutoffobs # <<>> =>
         /\ Len(nodestack) > 1
         /\ C27_Parent.lp_objective # NegInf
         /\ ~C27_Fallback
    /\ Len(nodestack) > 1 /\ C27_Fallback =>
         /\ hist.costobs = <<>>
         /\ hist.cutoffobs = <<>>
         /\ hist.infobs # <<>>
         /\ \A i \in DOMAIN hist.infobs :
              /\ hist.infobs[i][1] = C27_Parent.branchingdecision.column
              /\ hist.infobs[i][2] = (C27_Parent.branchingdecision.boundtype = kLower)

\* evaluateNode solved the LP of the child of a fallback branch whose parent
\* has a known LP objective: no objective observation, one inference
\* observation
C27_Witness ==
  /\ hist.ret.op = "evaluateNode"
  /\ Len(nodestack) > 1
  /\ C27_Fallback
  /\ C27_Parent.lp_objective # NegInf
  /\ Top.lp_objective # NegInf
  /\ hist.costobs = <<>>
  /\ Len(hist.infobs) = 1
\* ---------------------------------------------------------------- C28
\* the frame is a fallback branch: its branching point is the bound value
C28_Fallback(node) == node.branching_point = node.branchingdecision.boundval

\* the frames that the step flipped to their sibling and left on the stack
C28_FlippedNow ==
  {i \in DOMAIN nodestack' \cap DOMAIN nodestack :
     nodestack'[i].flipped /\ ~nodestack[i].flipped}

C28_Step ==
  \A i \in C28_FlippedNow :
    /\ nodestack'[i].branchingdecision.column = nodestack[i].branchingdecision.column
    /\ nodestack'[i].branchingdecision.boundtype # nodestack[i].branchingdecision.boundtype
    /\ C28_Fallback(nodestack'[i]) <=> C28_Fallback(nodestack[i])
\* C28: a frame that backtrack, backtrackPlunge or backtrackUntilDepth has
\* flipped to its sibling is a fallback branch (branching point equal to the
\* branching bound value) after the flip if and only if it was one before,
\* whether the branching was made by branch, branchDownwards or
\* branchUpwards.
C28_FallbackTie == [][C28_Step]_vars

\* backtrack has flipped a fallback branch and pushed its sibling
C28_Witness ==
  /\ hist.ret = Ret("backtrack", "true")
  /\ Len(nodestack) >= 2
  /\ nodestack[Len(nodestack) - 1].flipped
  /\ C28_Fallback(nodestack[Len(nodestack) - 1])

\* ---------------------------------------------------------------- C29
C29_Budget_B == SbMaxIters(GetTotalLpIterations(1), GetHeuristicLpIterations(1),
                           GetStrongBranchingLpIterations(1))
\* a pass of the loop of branch: the budget test and the degeneracy test
C29_Pass == pc = "budget" /\ pc' = "select"
\* a trial LP is solved
C29_TrialSolved == pc = "select" /\ loc'.trials > loc.trials
\* iteration counts between half the budget and the budget
C29_Between(B) ==
  {B \div 2 + 1, B \div 2 + 2, (5 * B) \div 8, (3 * B) \div 4, (7 * B) \div 8, B - 1, B}
\* between half the budget and the budget the parameter lies in 1..m and
\* does not increase with the strong-branching iterations
C29_Monotone ==
  \A m \in 1..MaxMinRel, B \in {SbBaseIters, SbBaseIters + 3, C29_Budget_B} :
    \A s1 \in C29_Between(B), s2 \in C29_Between(B) :
      LET r1 == BudgetMinReliable(m, m, s1, B)
          r2 == BudgetMinReliable(m, m, s2, B)
      IN r1 \in 1..m /\ (s1 <= s2 => r2 <= r1)
\* what every pass does, whatever the parameter was before it
C29_PassCommon ==
  (C29_Pass /\ loc.minrel > 0) =>
    LET sb == GetStrongBranchingLpIterations(1)
        B == C29_Budget_B
        p == loc'.minreliable
    IN /\ loc'.sbmaxiters = B
       /\ (loc'.degeneracy >= 10 => p = 0)
       /\ (sb > B => p = 0)
       /\ (loc'.degeneracy < 10 /\ 2 * sb > B /\ sb <= B =>
             p \in 1..loc.minrel)
\* a trial LP is solved only with m > 0 and within the budget of the pass
C29_TrialWithinBudget ==
  C29_TrialSolved =>
    /\ loc.minrel > 0
    /\ loc.sbmaxiters = C29_Budget_B
    /\ GetStrongBranchingLpIterations(1) < C29_Budget_B
\* a pass below half the budget
C29_BelowHalf ==
  /\ C29_Pass /\ loc.minrel > 0
  /\ loc'.degeneracy < 10
  /\ 2 * GetStrongBranchingLpIterations(1) <= C29_Budget_B

C29_OriginalStep ==
  /\ C29_PassCommon /\ C29_TrialWithinBudget /\ C29_Monotone
  /\ (C29_BelowHalf => loc'.minreliable = loc.minrel)
\* C29 as stated: below half the budget the parameter is m after every pass
C29_Original == [][C29_OriginalStep]_vars

C29_Step ==
  /\ C29_PassCommon /\ C29_TrialWithinBudget /\ C29_Monotone
  /\ (C29_BelowHalf => loc'.minreliable = loc.minreliable)
  /\ (C29_BelowHalf /\ loc.passes = 0 => loc'.minreliable = loc.minrel)
\* C29: in every pass of the loop of branch entered with min-reliable m > 0
\* and with B = 100000 + (total_lp - heuristic_lp - sb_lp)/2: sb_lp > B sets
\* the parameter to 0 and no trial LP is solved; B/2 < sb_lp <= B sets it to
\* a value in 1..m that does not increase with sb_lp; sb_lp <= B/2 leaves it
\* as the pass before left it, which is m in the first pass; a degeneracy
\* factor >= 10 sets it to 0; with m = 0 no trial LP is solved.
C29_Budget == [][C29_Step]_vars
\* a second pass below half the budget that follows a pass which reduced the
\* parameter: it is still m - 1
C29_Witness ==
  /\ pc = "select" /\ loc.passes = 2 /\ loc.last = "pass"
  /\ loc.minrel >= 2 /\ loc.minreliable = loc.minrel - 1
  /\ loc.degeneracy < 10
  /\ 2 * GetStrongBranchingLpIterations(1) <= loc.sbmaxiters

\* ---------------------------------------------------------------- C30
\* the sum of the weights of a sequence of flips
RECURSIVE C30_Weight(_)
C30_Weight(flips) ==
  IF flips = <<>> THEN 0
  ELSE flips[Len(flips)].weight + C30_Weight(SubSeq(flips, 1, Len(flips) - 1))

\* a step in which backtrack unwound a non-empty stack
C30_Step ==
  (hist'.ret.op = "backtrack" /\ nodestack # <<>>) =>
    LET flips == hist'.flips
        n == Len(flips)
    IN /\ \A i \in DOMAIN flips :
            LET e == flips[i]
            IN /\ e.fate \in {"pruned", "pushed"}
               /\ e.fate = "pushed" =>
                    /\ i = n
                    /\ e.lower_bound <= GetCutoffBound
                    /\ ~DomInfeasible(e.domain)
                    /\ e.weight = 0
               /\ e.fate = "pruned" =>
                    /\ e.domain = e.entry
                    /\ e.weight = 2 ^ (DepthCap - (e.depth + 1))
                    /\ e.frames = 0
                    /\ e.parent = 0
                    /\ IF i < n THEN flips[i + 1].pos < e.pos
                       ELSE nodestack' = <<>> /\ hist'.ret.val = "false"
       /\ treeweight' - treeweight = C30_Weight(flips)

\* C30: in backtrack a flipped sibling whose frame's lower bound exceeds the
\* cutoff bound, or whose domain is or becomes infeasible, is pruned: the
\* local domain is back where it was before the sibling's bound change,
\* exactly 2^(-d) is added to the tree weight for the sibling's logical depth
\* d, no frame is pushed, the frame is closed and unwinding goes on below it;
\* a sibling that is pushed is within the cutoff bound and feasible.
C30_PrunedSibling == [][C30_Step]_vars

\* backtrack pruned a sibling whose propagation was infeasible, unwound
\* further and pushed the sibling of an ancestor
C30_Witness ==
  /\ hist.ret = Ret("backtrack", "true")
  /\ Len(hist.flips) >= 2
  /\ hist.flips[1].fate = "pruned"
  /\ hist.flips[1].lower_bound <= GetCutoffBound
  /\ hist.flips[1].weight > 0
  /\ hist.flips[Len(hist.flips)].fate = "pushed"

\* ---------------------------------------------------------------- C31
C31_Step ==
  /\ lpstate'.object = lpstate.object
  /\ hist'.ret.op = "branch" =>
       /\ lpstate'.object = "lp"
       /\ \A i \in DOMAIN hist'.ladder : hist'.ladder[i].object = "lpCopy"
\* C31: on every return from branch, the exits of the fallback ladder
\* included, the LP handle of the driver points to the relaxation it pointed
\* to on entry; the evaluations of the ladder ran on the local copy, which is
\* not left installed.
C31_LpRestored == [][C31_Step]_vars

\* the ladder ran all its stages on the copy and gave up
C31_Witness ==
  /\ hist.ret = Ret("branch", "kLpInfeasible")
  /\ Len(hist.ladder) = LadderStages
  /\ hist.ladder[LadderStages].result = "kOpen"
  /\ hist.ladder[1].object = "lpCopy"
  /\ lpstate.object = "lp"

\* ---------------------------------------------------------------- C32
C32_Step ==
  /\ (pc = "idle" /\ pc' = "budget") => loc'.minrel = loc'.minreliable
  /\ (pc \in {"budget", "select"}) => loc'.minrel = loc.minrel
  /\ (pc # "done" /\ pc' = "done") =>
       /\ loc'.last \in BranchExits \cup {"kBranched"}
       /\ loc'.minreliable = loc.minrel
       /\ loc'.degeneracy = 1
\* C32: on every return from branch, with kBranched after a candidate was
\* selected, with the result of a node closed after a one-sided commit,
\* after the fallback branch or after the fallback ladder, the min-reliable
\* parameter of the pseudocosts is the value branch was entered with and the
\* degeneracy factor is 1, whatever the passes of the loop set them to.
C32_SettingsRestored == [][C32_Step]_vars

\* branch returned from the fallback ladder after a pass that had set the
\* parameter to 0 and a one-sided commit
C32_Witness ==
  /\ pc = "done" /\ loc.last = "fallback ladder"
  /\ loc.minrel > 0 /\ loc.lowest = 0 /\ loc.trials > 0
  /\ loc.minreliable = loc.minrel /\ loc.degeneracy = 1

\* ---------------------------------------------------------------- C33
C33_NumFrac == Cardinality(lpstate.fracints)
\* the trial of the step solved an LP
C33_LpSolved == hist'.trial.status \in {"optimal", "lpinf", "error"}
C33_Step ==
  pc = "sb" =>
    /\ C33_NumFrac >= 1
    /\ BestPositions(C33_NumFrac) \subseteq 0..(C33_NumFrac - 1)
    /\ BestPositions(C33_NumFrac) # {}
    /\ pc' = "sb" =>
         LET cand == hist'.trial.cand
             side == hist'.trial.side
         IN /\ loc.sb.uprel \subseteq loc'.sb.uprel
            /\ loc.sb.downrel \subseteq loc'.sb.downrel
            /\ cand \in lpstate.fracints
            /\ IF side = kUpper
               THEN cand \notin loc.sb.downrel /\ cand \in loc'.sb.downrel
               ELSE cand \notin loc.sb.uprel /\ cand \in loc'.sb.uprel
            /\ C33_LpSolved
            /\ loc'.sb.lps = loc.sb.lps + 1
            /\ loc'.sb.lps <= 2 * C33_NumFrac
    /\ pc' # "sb" =>
         /\ hist'.ret \in {Ret("branch", "kBranched"),
                           Ret("selectBranchingCandidate", "-1")}
         /\ (hist'.ret.op = "selectBranchingCandidate" /\ C33_LpSolved) =>
              loc.sb.lps + 1 <= 2 * C33_NumFrac
\* C33: every pass of the loop of selectBranchingCandidate returns or marks
\* a side of the selected candidate reliable that was not; no reliability
\* flag is cleared; selectBestScore returns a position of the list whenever
\* the list is not empty; and a call solves at most twice as many trial LPs
\* as there are fractional candidates.
C33_ProbingTerminates == [][C33_Step]_vars

\* both sides of every candidate were probed with a trial LP
C33_Witness ==
  /\ pc = "sb"
  /\ C33_NumFrac >= 2
  /\ loc.sb.lps = 2 * C33_NumFrac
  /\ Unreliable(loc.sb) = {}

\* ---------------------------------------------------------------- C34
C34_Step ==
  hist'.ret.op = "backtrack" =>
    IF nodestack = <<>>
    THEN /\ hist'.ret.val = "false"
         /\ UNCHANGED <<nodestack, domchgstack, infeasible_pos, depthoffset, treeweight,
                        pruned_treeweight, upper_limit, lpstate, nodequeue>>
    ELSE /\ hist'.ret.val \in {"true", "false"}
         /\ hist'.ret.val = "false" <=> nodestack' = <<>>
         /\ hist'.ret.val = "false" => domchgstack' = <<>> /\ infeasible_pos' = 0 - 1
         /\ hist'.ret.val = "true" <=>
              /\ hist'.flips # <<>>
              /\ hist'.flips[Len(hist'.flips)].fate = "pushed"
              /\ hist'.flips[Len(hist'.flips)].frames = 1
         /\ hist'.ret.val = "true" =>
              /\ Len(nodestack') >= 2
              /\ Len(nodestack') <= Len(nodestack)
              /\ nodestack'[Len(nodestack')].opensubtrees = 2
              /\ nodestack'[Len(nodestack') - 1].opensubtrees = 0
              /\ nodestack'[Len(nodestack') - 1].flipped
              /\ \A i \in 1..(Len(hist'.flips) - 1) : hist'.flips[i].fate = "pruned"
\* C34: backtrack called with a closed top frame returns false exactly when
\* the node stack is empty on return, and the local domain is then the
\* global domain; it returns true exactly when it pushed one frame for a
\* flipped sibling, and then the top frame has both subtrees open and the
\* frame below it none; called on an empty stack it returns false and
\* changes nothing.
C34_ReturnValue == [][C34_Step]_vars

\* backtrack popped the closed top frame, flipped the frame below and pushed
\* its sibling at once
C34_Witness ==
  /\ hist.ret = Ret("backtrack", "true")
  /\ Len(hist.flips) = 1
  /\ Len(nodestack) >= 2
  /\ nodestack[Len(nodestack)].opensubtrees = 2
  /\ nodestack[Len(nodestack) - 1].opensubtrees = 0

\* ---------------------------------------------------------------- C35
C35_Step ==
  (hist'.ret.op = "backtrackUntilDepth" /\ nodestack # <<>>) =>
    LET t == hist'.target
        n == Len(nodestack)
        j == Len(nodestack') - 1
    IN /\ treeweight' = treeweight
       /\ nodequeue' = nodequeue
       /\ hist'.queued = <<>>
       /\ hist'.ret.val \in {"true", "false"}
       /\ hist'.ret.val = "false" <=> nodestack' = <<>>
       /\ hist'.ret.val = "true" =>
            /\ j >= 1 /\ j < n
            /\ SubSeq(nodestack', 1, j - 1) = SubSeq(nodestack, 1, j - 1)
            /\ \A i \in 1..n : C14_DepthOf(i) >= t => i > j
            /\ \A i \in (j + 1)..n :
                 C14_DepthOf(i) >= t \/ nodestack[i].opensubtrees = 0
            /\ nodestack[j].opensubtrees = 1
            /\ nodestack'[j].opensubtrees = 0
            /\ nodestack'[j].flipped /\ ~nodestack[j].flipped
            /\ nodestack'[j].branchingdecision.column = nodestack[j].branchingdecision.column
            /\ nodestack'[j].branchingdecision.boundtype
                 # nodestack[j].branchingdecision.boundtype
            /\ nodestack'[j + 1].opensubtrees = 2
            /\ domchgstack' # <<>>
            /\ LET last == domchgstack'[Len(domchgstack')]
                   dec == nodestack'[j].branchingdecision
               IN /\ last.branching
                  /\ last.column = dec.column
                  /\ last.boundtype = dec.boundtype
                  /\ last.boundval = dec.boundval
            /\ GetCurrentDepth(nodestack', depthoffset') <= t
\* C35: backtrackUntilDepth(t) adds no tree weight and emplaces no queue
\* node; when it returns true it has popped every frame at which
\* getCurrentDepth() was at least t, the frames it popped below that were
\* closed, it has flipped the frame that is left on top, which had one
\* subtree open, and pushed its sibling, and getCurrentDepth() is at most t;
\* it returns false exactly when the stack has run empty.
C35_UntilDepth == [][C35_Step]_vars

\* backtrackUntilDepth(2) returned to the root and pushed its sibling
C35_Witness ==
  /\ hist.ret = Ret("backtrackUntilDepth", "true")
  /\ hist.target = 2
  /\ Len(nodestack) = 2
  /\ nodestack[1].flipped
  /\ GetCurrentDepth(nodestack, depthoffset) = 2

\* ---------------------------------------------------------------- C36
\* the tree weight counted since the root was created, local and flushed
C36_Counted == treeweight + pruned_treeweight - hist.startweight
\* C36: in a search that its owner started with createNewNode at depth
\* offset 0, without nodes installed from the queue, the local tree weight
\* plus the flushed pruned tree weight counted for the root never exceeds 1.
C36_NoSubtreeTwice ==
  (caller # "mainloop" /\ hist.nroots >= 1 /\ hist.rootoffset = 0) =>
    C36_Counted <= WeightUnit

\* the whole tree below the root is counted, part of it flushed and part
\* of it still local
C36_Witness ==
  /\ caller = "depthfirst" /\ hist.nroots >= 1 /\ hist.rootoffset = 0
  /\ C36_Counted = WeightUnit
  /\ treeweight > 0 /\ pruned_treeweight > hist.startweight
  /\ nodestack = <<>>
\* ---------------------------------------------------------------- C37
\* the width of the domain of column c under the domain changes stk
C37_Width(stk, c) == ColUpper(stk, c) - ColLower(stk, c)

\* a step that pushes a child below the current node
C37_Pushes ==
  /\ nodestack # <<>>
  /\ Len(nodestack') = Len(nodestack) + 1
  /\ hist'.flips = <<>>

\* every frame that a step flips was open and not flipped before and has
\* no open subtree left after it, so that backtrack only pops it; a step
\* flips a frame once
C37_FlippedOnce ==
  /\ \A i \in DOMAIN hist'.flips :
       LET e == hist'.flips[i]
       IN /\ e.pos \in DOMAIN nodestack
          /\ ~nodestack[e.pos].flipped
          /\ nodestack[e.pos].opensubtrees = 1
          /\ e.parent = 0
          /\ e.fate = "pushed" =>
               nodestack'[e.pos].flipped /\ nodestack'[e.pos].opensubtrees = 0
          /\ \A k \in DOMAIN hist'.flips : k < i => hist'.flips[k].pos > e.pos
  /\ \A i \in DOMAIN nodestack' :
       nodestack'[i].flipped => nodestack'[i].opensubtrees = 0

\* the fractional integers of the LP solution lie inside the local domain
C37_Fresh ==
  \A e \in lpstate.fracints :
    ColLower(domchgstack, e[1]) < e[2] /\ e[2] < ColUpper(domchgstack, e[1])

\* a branch strictly shrinks the domain of the column it branches on
C37_Shrinks ==
  C37_Pushes =>
    LET c == nodestack'[Len(nodestack)].branchingdecision.column
    IN /\ c \in integral_cols
       /\ C37_Width(domchgstack', c) < C37_Width(domchgstack, c)

\* solveDepthFirst returns with its budget used up, from a dive that
\* checkLimits stopped, or with the node stack empty
C37_Ended ==
  /\ ~DiveRunning
  /\ \/ run.exit = "budget" /\ run.maxbacktracks = 0
     \/ run.exit = "open" /\ run.limit
     \/ run.exit = "empty" /\ nodestack = <<>>

\* the frames a node stack can hold: the root and one frame for each value
\* that branching can remove from the domain of an integer column
C37_MaxFrames ==
  1 + SetMax({0} \cup {(GlobalUpper(c) - GlobalLower(c)) \div 2 : c \in integral_cols})
      * Cardinality(integral_cols)

\* the subtrees the frames of stk have left to search, the root counting most
RECURSIVE C37_Open(_)
C37_Open(stk) ==
  IF stk = <<>> THEN 0
  ELSE C37_Open(Pop(stk)) + TopOf(stk).opensubtrees * 3 ^ (C37_MaxFrames - Len(stk))

\* the calls that dive and solveDepthFirst make on one node, last first
C37_Phase ==
  CASE run.pos = "evaluateNode" -> 5
    [] run.pos = "checkLimits" -> 4
    [] run.pos = "branch" /\ pc \in {"idle", "eval"} -> 3
    [] run.pos = "branch" /\ pc = "sb" -> 2
    [] run.pos = "backtrack" -> 1
    [] OTHER -> 0

\* the sides of the probed candidates that are not yet reliable
C37_Probes ==
  IF pc # "sb" THEN 0
  ELSE Cardinality({cand \in Selected(lpstate.fracints) : cand \notin loc.sb.uprel})
       + Cardinality({cand \in Selected(lpstate.fracints) : cand \notin loc.sb.downrel})

\* what is left of the call of solveDepthFirst: open subtrees first, then
\* the calls on the current node, then the trial LPs of the probing loop
C37_Rank == (C37_Open(nodestack) * 6 + C37_Phase) * (2 * Cardinality(Cols) + 1) + C37_Probes

\* the call that solveDepthFirst makes next can be made
C37_Callable ==
  /\ run.pos = "evaluateNode" => pc = "idle" /\ nodestack # <<>>
  /\ run.pos = "checkLimits" => pc = "idle"
  /\ run.pos = "branch" /\ pc = "idle" =>
       nodestack # <<>> /\ Top.opensubtrees = 2 /\ hist.ret = Ret("evaluateNode", "kOpen")
  /\ run.pos = "branch" => pc \in {"idle", "sb", "eval"}
  /\ run.pos = "branch" /\ pc = "sb" => Selected(lpstate.fracints) # {}
  /\ run.pos = "backtrack" =>
       pc = "idle" /\ nodestack # <<>> /\ Top.opensubtrees = 0

C37_Ranked ==
  /\ C37_FlippedOnce
  /\ C37_Fresh => C37_Shrinks
  /\ Len(nodestack') <= C37_MaxFrames'
  /\ DiveRunning =>
       /\ C37_Rank' < C37_Rank
       /\ C37_Rank' >= 0
       /\ DiveRunning' => C37_Callable'
       /\ ~DiveRunning' => C37_Ended'

\* the search terminates, whether the LP solution is stale or not
C37_TerminatesStale == [][C37_Ranked]_vars

C37_Step == C37_Ranked /\ C37_Shrinks

\* C37: the search terminates.  While solveDepthFirst runs, the call it
\* makes next can be made, and every step strictly lowers a rank that is
\* never negative: the open subtrees of the frames, the root counting most,
\* then the calls on the current node, then the sides still to probe.  So a
\* call of solveDepthFirst that goes on running returns, and it returns
\* with the node stack empty unless its budget of backtracks is used up or
\* checkLimits stopped a dive.  Every frame is flipped at most once and then
\* only popped, every branch strictly shrinks the domain of the column it
\* branches on, and the node stack holds at most one frame for each value
\* of the integer columns, and the root.
C37_Terminates == [][C37_Step]_vars

\* solveDepthFirst has emptied the node stack with budget left and without
\* a limit, after a dive that branched and a backtrack that flipped
C37_Witness ==
  /\ ~DiveRunning
  /\ run.exit = "empty"
  /\ run.maxbacktracks > 0
  /\ ~run.limit
  /\ run.dives = 1
  /\ run.evals >= 2
  /\ hist.flips # <<>>
  /\ nodestack = <<>>

\* a branch on a fractional integer of a stale LP solution: the column was
\* fixed after the LP was solved, and the child has the domain of its parent
C37_StaleBranch ==
  /\ DiveRunning
  /\ Len(nodestack) >= 2
  /\ hist.ret = Ret("branch", "kBranched")
  /\ LET dec == nodestack[Len(nodestack) - 1].branchingdecision
         before == SubSeq(domchgstack, 1, TopOf(nodestack).domgchgStackPos)
     IN /\ dec.column \in integral_cols
        /\ ColLower(before, dec.column) = ColUpper(before, dec.column)
        /\ C37_Width(domchgstack, dec.column) = C37_Width(before, dec.column)
\* ---------------------------------------------------------------- C38
\* the step is a call of setRENSNeighbourhood
C38_Called == hist'.ret = Ret("setRENSNeighbourhood", "void")

\* the changes the call pushed
C38_Pushed == SubSeq(domchgstack', Len(domchgstack) + 1, Len(domchgstack'))

\* the column the call returned in, or the last column when it ran through
C38_LastColumn ==
  IF infeasible_pos' # -1 THEN domchgstack'[Len(domchgstack')].column
  ELSE SetMax(Cols)

\* the bounds the loop gives integer column c that is not fixed, in the
\* order of the code: the lower bound first, the upper bound against it
C38_NewLower(c) ==
  LET downval == 2 * ((hist'.lpsol[c] + RensFeastol) \div RensScale)
  IN IF ColLower(domchgstack, c) < downval
     THEN SetMin({downval, ColUpper(domchgstack, c)})
     ELSE ColLower(domchgstack, c)
C38_NewUpper(c) ==
  LET x == hist'.lpsol[c] - RensFeastol
      upval == 2 * (IF x % RensScale = 0 THEN x \div RensScale ELSE x \div RensScale + 1)
  IN IF ColUpper(domchgstack, c) > upval
     THEN Max2(upval, C38_NewLower(c))
     ELSE ColUpper(domchgstack, c)

\* C38: setRENSNeighbourhood only tightens.  It pushes bound changes on the
\* local domain and touches nothing else.  No bound of any column is
\* widened and no lower bound is set above the upper bound; continuous
\* columns and columns that were fixed are untouched.  When the local domain
\* reports infeasible after a change the call returns at once: that change
\* is the last one pushed and the columns after its column are untouched.
\* Every integer column before the column of return that was not fixed has
\* the lower bound min(floor(lpsol + feastol), upper) if that raises it and
\* the upper bound max(ceil(lpsol - feastol), lower) if that lowers it, and
\* so has the column of return up to the change the call returned after.
\* Nothing is returned.
C38_Step ==
  C38_Called =>
    /\ Len(domchgstack') >= Len(domchgstack)
    /\ SubSeq(domchgstack', 1, Len(domchgstack)) = domchgstack
    /\ \A k \in DOMAIN C38_Pushed : ~C38_Pushed[k].branching
    /\ <<nodestack', depthoffset', treeweight', lpstate', upper_limit'>>
         = <<nodestack, depthoffset, treeweight, lpstate, upper_limit>>
    /\ infeasible_pos' # -1 => infeasible_pos' = Len(domchgstack') - 1
                               /\ Len(domchgstack') > Len(domchgstack)
    /\ \A c \in Cols :
         /\ ColLower(domchgstack', c) >= ColLower(domchgstack, c)
         /\ ColUpper(domchgstack', c) <= ColUpper(domchgstack, c)
         /\ ColLower(domchgstack', c) <= ColUpper(domchgstack', c)
         /\ (c \notin integral_cols \/ ColLower(domchgstack, c) = ColUpper(domchgstack, c)
             \/ c > C38_LastColumn)
              => \A k \in DOMAIN C38_Pushed : C38_Pushed[k].column # c
         /\ (c \in integral_cols /\ ColLower(domchgstack, c) < ColUpper(domchgstack, c)
             /\ c <= C38_LastColumn) =>
              /\ ColLower(domchgstack', c) = C38_NewLower(c)
              /\ ColUpper(domchgstack', c) \in
                   IF c < C38_LastColumn \/ infeasible_pos' = -1
                   THEN {C38_NewUpper(c)}
                   ELSE IF domchgstack'[Len(domchgstack')].boundtype = kLower
                   THEN {ColUpper(domchgstack, c)}
                   ELSE {C38_NewUpper(c)}
C38_OnlyTightens == [][C38_Step]_vars

\* the first integer column, whose LP value lies above its upper bound, was
\* fixed at its upper bound, and the call returned from the second with the
\* domain infeasible before it looked at the upper bound of that column
C38_Witness ==
  /\ hist.ret = Ret("setRENSNeighbourhood", "void")
  /\ integral_cols = {1, 2}
  /\ hist.lpsol[1] > 2 * GlobalUpper(1)
  /\ ColLower(domchgstack, 1) = GlobalUpper(1)
  /\ infeasible_pos = Len(domchgstack) - 1
  /\ domchgstack[Len(domchgstack)].column = 2
  /\ domchgstack[Len(domchgstack)].boundtype = kLower
  /\ RensUpval(hist.lpsol[2]) < ColUpper(domchgstack, 2)
\* ---------------------------------------------------------------- C39
\* callhighs has built its LP
C39_Built == pc \in {"run", "done", "fault"}

\* C39: callhighs builds a consistent LP from the caller's arrays.  It
\* reads no element beyond them; colCost_, colLower_ and colUpper_ have
\* numcol entries, rowLower_ and rowUpper_ have numrow entries, the first
\* numrow of the caller's, Astart_ has numcol + 1 entries, Aindex_ and
\* Avalue_ have astart[numcol] entries, and no column is integer.
C39_ConsistentLp ==
  C39_Built =>
    /\ loc.beyond = {}
    /\ loc.lp # Fault
    /\ loc.lp.numCol_ = loc.numcol /\ loc.lp.numRow_ = loc.numrow
    /\ loc.lp.numInt_ = 0
    /\ loc.lp.colCost_ = SubSeq(loc.colcost, 1, loc.numcol)
    /\ loc.lp.colLower_ = SubSeq(loc.collower, 1, loc.numcol)
    /\ loc.lp.colUpper_ = SubSeq(loc.colupper, 1, loc.numcol)
    /\ loc.lp.rowLower_ = SubSeq(loc.rowlower, 1, loc.numrow)
    /\ loc.lp.rowUpper_ = SubSeq(loc.rowupper, 1, loc.numrow)
    /\ Len(loc.lp.rowUpper_) = loc.numrow
    /\ loc.lp.Astart_ = SubSeq(loc.astart, 1, loc.numcol + 1)
    /\ Len(loc.lp.Aindex_) = loc.astart[loc.numcol + 1]
    /\ Len(loc.lp.Avalue_) = loc.astart[loc.numcol + 1]
    /\ loc.lp.Aindex_ = SubSeq(loc.aindex, 1, loc.astart[loc.numcol + 1])
    /\ loc.lp.Avalue_ = SubSeq(loc.avalue, 1, loc.astart[loc.numcol + 1])

\* a model with more rows than columns is solved with a row upper bound
\* missing
C39_ShortRowUpper ==
  /\ pc = "done"
  /\ loc.numcol = 1 /\ loc.numrow = 2
  /\ Len(loc.lp.rowLower_) = 2
  /\ Len(loc.lp.rowUpper_) = 1

\* a model with more columns than rows: callhighs read rowupper beyond its
\* end
C39_ReadBeyond ==
  /\ C39_Built
  /\ loc.numcol = 2 /\ loc.numrow = 1
  /\ "rowupper" \in loc.beyond
====
